---- MODULE Spec2Model ----
(***************************************************************************)
(* A model of the sample-chopper playback engine:                          *)
(*   - RingBuffer of src/src/workers/rubberband.worklet.js                 *)
(*   - the control state machine AudioEngine of src/src/lib/AudioEngine.ts *)
(*   - the command side of RubberBandProcessor (port.onmessage,            *)
(*     startPlayback, stopPlayback) of rubberband.worklet.js               *)
(* Times are integers counted in units of 10 ms; samples are integers.     *)
(***************************************************************************)
EXTENDS Integers, Sequences, FiniteSets, TLC

VARIABLES
    ring,       \* the RingBuffer under test (capacity, channels, buffer, indices)
    rbOut,      \* the output arrays handed to the last read(), after the call
    rbLast,     \* the last RingBuffer call: its name, frame count, return value
    rbFifo,     \* history: frames accepted by write() since the last clear(),
                \* not yet returned by an accepted read()
    eng,        \* the fields of AudioEngine (state is its PlaybackState)
    pending,    \* async calls of the engine suspended at an await, oldest first
    timers,     \* release timers set by stopPad(), oldest first
    toWorklet,  \* messages posted to the processor's port, not yet handled
    toEngine,   \* messages posted by the processor, not yet handled
    proc,       \* the fields of RubberBandProcessor
    now,        \* audioContext.currentTime
    lastEvent,  \* history: the event handled last, with its arguments
    calls       \* history: the number of commands the user has issued

rbVars == <<ring, rbOut, rbLast, rbFifo>>

engVars == <<eng, pending, timers, toWorklet, toEngine, proc, now, lastEvent, calls>>

vars == <<ring, rbOut, rbLast, rbFifo,
          eng, pending, timers, toWorklet, toEngine, proc, now, lastEvent, calls>>

(***************************************************************************)
(* Bounds of the model.                                                    *)
(***************************************************************************)
\* capacity (in frames) of the RingBuffer under test
RBCapacity == 3

\* RingBuffer(capacity, 2): both rings of the processor are stereo
Channels == 2

\* the frames a caller writes: <<left sample, right sample>>
FrameSet == { <<1, 3>>, <<2, 4>> }

\* process(): outputs[0][0].length, the render quantum (128 frames), scaled
FramesNeeded == 2

\* process(): CHUNK_SIZE (1024 frames), scaled
ChunkSize == 2

\* process(): TARGET_OUTPUT_LEVEL (4096 frames), scaled
TargetOutputLevel == 4

\* initWasm(): the capacity of the output ring (32768 frames), scaled
OutputCapacity == 8

\* a ring that does not exist yet
NoRing == [capacity |-> 0, channels |-> 0, buffer |-> <<>>,
           writeIndex |-> 0, readIndex |-> 0, available |-> 0]

\* the largest frame count of one write()/read(): one more than fits
MaxFrames == RBCapacity + 1

(***************************************************************************)
(* Arrays are functions on 0..n-1, as Float32Array.                        *)
(***************************************************************************)
ArrLen(a) == Cardinality(DOMAIN a)

\* data[c][i] of a write: channel arrays made from a sequence of frames
ChannelData(frames) ==
    [c \in 0..(Channels - 1) |-> [i \in 0..(Len(frames) - 1) |-> frames[i + 1][c + 1]]]

\* the output arrays a caller hands to read(): new Float32Array(n) per channel
FreshOutput(n) ==
    [c \in 0..(Channels - 1) |-> [i \in 0..(n - 1) |-> 0]]

(***************************************************************************)
(* class RingBuffer                                                        *)
(***************************************************************************)
NewRingBuffer(capacity, channels) ==
    [capacity   |-> capacity,
     channels   |-> channels,
     buffer     |-> [k \in 0..(capacity * channels - 1) |-> 0],
     writeIndex |-> 0,
     readIndex  |-> 0,
     available  |-> 0]

\* the two nested loops of write(): for c, for i: buffer[idx*channels+c] = data[c][i]
RECURSIVE WriteLoop(_, _, _, _, _)
WriteLoop(rb, buf, data, numFrames, k) ==
    IF k >= rb.channels * numFrames THEN buf
    ELSE LET c   == k \div numFrames
             i   == k % numFrames
             idx == (rb.writeIndex + i) % rb.capacity
         IN  WriteLoop(rb, [buf EXCEPT ![idx * rb.channels + c] = data[c][i]],
                       data, numFrames, k + 1)

\* a write() that skips the overflow check
RBWriteUnchecked(rb, data) ==
    LET numFrames == ArrLen(data[0]) IN
    [ring |-> [rb EXCEPT !.buffer     = WriteLoop(rb, rb.buffer, data, numFrames, 0),
                         !.writeIndex = (rb.writeIndex + numFrames) % rb.capacity,
                         !.available  = rb.available + numFrames],
     ret  |-> TRUE]

\* a write() that copies the frames before it rejects
RBWritePartial(rb, data) ==
    LET numFrames == ArrLen(data[0]) IN
    IF rb.available + numFrames > rb.capacity
    THEN [ring |-> [rb EXCEPT !.buffer = WriteLoop(rb, rb.buffer, data, numFrames, 0)],
          ret  |-> FALSE]
    ELSE RBWriteUnchecked(rb, data)

\* write(data): [ring |-> the buffer afterwards, ret |-> the returned boolean]
RBWrite(rb, data) ==
    LET numFrames == ArrLen(data[0]) IN
    IF rb.available + numFrames > rb.capacity
    THEN [ring |-> rb, ret |-> FALSE]
    ELSE [ring |-> [rb EXCEPT !.buffer     = WriteLoop(rb, rb.buffer, data, numFrames, 0),
                              !.writeIndex = (rb.writeIndex + numFrames) % rb.capacity,
                              !.available  = rb.available + numFrames],
          ret  |-> TRUE]

\* the two nested loops of read(): output[c][i] = buffer[idx*channels+c]
RECURSIVE ReadLoop(_, _, _, _)
ReadLoop(rb, output, numFrames, k) ==
    IF k >= rb.channels * numFrames THEN output
    ELSE LET c   == k \div numFrames
             i   == k % numFrames
             idx == (rb.readIndex + i) % rb.capacity
         IN  ReadLoop(rb, [output EXCEPT ![c][i] = rb.buffer[idx * rb.channels + c]],
                      numFrames, k + 1)

\* a read() that copies without wrapping the index at the end of the storage
RECURSIVE ReadLoopNoWrap(_, _, _, _)
ReadLoopNoWrap(rb, output, numFrames, k) ==
    IF k >= rb.channels * numFrames THEN output
    ELSE LET c   == k \div numFrames
             i   == k % numFrames
             idx == IF rb.readIndex + i >= rb.capacity THEN rb.capacity - 1
                    ELSE rb.readIndex + i
         IN  ReadLoopNoWrap(rb, [output EXCEPT ![c][i] = rb.buffer[idx * rb.channels + c]],
                            numFrames, k + 1)

RBReadNoWrap(rb, output, numFrames) ==
    IF rb.available < numFrames
    THEN [ring |-> rb, out |-> output, ret |-> 0]
    ELSE [ring |-> [rb EXCEPT !.readIndex = (rb.readIndex + numFrames) % rb.capacity,
                              !.available = rb.available - numFrames],
          out  |-> ReadLoopNoWrap(rb, output, numFrames, 0),
          ret  |-> numFrames]

\* a read() that hands out what is there before it rejects
RBReadPartial(rb, output, numFrames) ==
    IF rb.available < numFrames
    THEN [ring |-> [rb EXCEPT !.readIndex = (rb.readIndex + rb.available) % rb.capacity,
                              !.available = 0],
          out  |-> ReadLoop(rb, output, rb.available, 0),
          ret  |-> 0]
    ELSE [ring |-> [rb EXCEPT !.readIndex = (rb.readIndex + numFrames) % rb.capacity,
                              !.available = rb.available - numFrames],
          out  |-> ReadLoop(rb, output, numFrames, 0),
          ret  |-> numFrames]

\* read(output, numFrames): the buffer and the output arrays afterwards, and
\* the returned frame count
RBRead(rb, output, numFrames) ==
    IF rb.available < numFrames
    THEN [ring |-> rb, out |-> output, ret |-> 0]
    ELSE [ring |-> [rb EXCEPT !.readIndex = (rb.readIndex + numFrames) % rb.capacity,
                              !.available = rb.available - numFrames],
          out  |-> ReadLoop(rb, output, numFrames, 0),
          ret  |-> numFrames]

\* clear()
RBClear(rb) ==
    [rb EXCEPT !.writeIndex = 0, !.readIndex = 0, !.available = 0]

(***************************************************************************)
(* Bounds of the engine model.                                             *)
(***************************************************************************)
\* audioBuffer.duration of the loaded source, in time units
SrcDuration == 3

\* audioBuffer.sampleRate: samples per time unit
SampleRate == 2

\* the latest value of audioContext.currentTime the model follows
MaxTime == 2

\* the most messages waiting in one direction of the port
MaxQueue == 3

\* the most async calls suspended at once
MaxPending == 2

\* the most release timers pending at once
MaxTimers == 1

\* the most commands (setAudioBuffer, play, pause, seek, playPad, stopPad)
\* the user issues in one run
MaxCalls == 4

\* the ids of the pads a user triggers
Pads == {"A", "B"}

\* the cue points a pad may carry
Cues == 0..SrcDuration

\* PadParams.speed of a pad
Speeds == {1, 2}

\* the argument of seek(): also before the start and past the end
SeekTimes == (0 - 1)..(SrcDuration + 1)

(***************************************************************************)
(* Values of the control side.                                             *)
(***************************************************************************)
\* the epsilon of checkPlaybackCompletion (0.01 s): one time unit
CompletionEpsilon == 1

\* state.currentPadId = null
NoPad == "none"

\* setGlobalSpeed: the upper limit of the global speed (4.0)
MaxGlobalSpeed == 4

\* the speeds setGlobalSpeed is called with: one of them above the limit
GlobalSpeedInputs == {1, 2, MaxGlobalSpeed + 1}

\* the duration of the source of SpecPosition, in time units: long enough
\* for two polls at different speeds before the completion epsilon
LongSrcDuration == 4

\* PadParams; pitch, attack, release and volume only feed the audio params
PadParamsSet == [speed : Speeds, reverse : BOOLEAN]

\* { speed: 1.0, pitch: 0, reverse: false, ... }: the params of global playback
GlobalParams == [speed |-> 1, reverse |-> FALSE]

\* audioBuffer = null
NoBuffer == [present |-> FALSE, duration |-> 0]

AudioBuffer(d) == [present |-> TRUE, duration |-> d]

\* the fields of a new AudioEngine
NewAudioEngine ==
    [audioBuffer   |-> NoBuffer,
     ctxState      |-> "suspended",
     initPromise   |-> "none",
     wasmBytes     |-> FALSE,
     workletNode   |-> FALSE,
     envelopeGain  |-> FALSE,
     gainRamps     |-> 0,
     state         |-> [mode         |-> "global",
                        cuePoint     |-> 0,
                        startTime    |-> 0,
                        duration     |-> 0,
                        params       |-> GlobalParams,
                        isPlaying    |-> FALSE,
                        currentPadId |-> NoPad],
     globalOffset  |-> 0,
     globalSpeed   |-> 1,
     lastUpdateTime      |-> 0,
     accumulatedPosition |-> 0]

\* messages of the port, all of one shape
Msg(type, startSample, durationSamples, reverse) ==
    [type |-> type, startSample |-> startSample,
     durationSamples |-> durationSamples, reverse |-> reverse]

StopMsg == Msg("stop", 0, 0, FALSE)

InitMsg == Msg("init", 0, 0, FALSE)

\* { type: 'load', left, right }: durationSamples is left.length
LoadMsg(buffer) == Msg("load", 0, buffer.duration * SampleRate, FALSE)

\* { type: 'play', startSample, durationSamples, reverse }
PlayMsg(cuePoint, duration, params) ==
    Msg("play", cuePoint * SampleRate, duration * SampleRate, params.reverse)

\* an async call suspended at an await: where it continues and its locals
Task(pc, padId, cuePoint, duration, params, buffer) ==
    [pc |-> pc, wait |-> "micro", padId |-> padId, cuePoint |-> cuePoint,
     duration |-> duration, params |-> params, buffer |-> buffer]

Max(a, b) == IF a >= b THEN a ELSE b

Min(a, b) == IF a <= b THEN a ELSE b

(***************************************************************************)
(* The control side as functions of the world w: the engine's fields, the  *)
(* suspended calls, the microtask queue of the running handler, the        *)
(* timers, the port and the clock.                                         *)
(***************************************************************************)
getDuration(e) == IF e.audioBuffer.present THEN e.audioBuffer.duration ELSE 0

isPadPlaying(e) == e.state.isPlaying /\ e.state.mode = "pad"

isGlobalPlaying(e) == e.state.isPlaying /\ e.state.mode = "global"

postMessage(w, m) == [w EXCEPT !.toWorklet = Append(@, m)]

\* _stopPlayback(): every caller passes preservePadId = false
_stopPlayback(w) ==
    LET w1 == IF w.eng.workletNode THEN postMessage(w, StopMsg) ELSE w IN
    [w1 EXCEPT !.eng.state.isPlaying = FALSE,
               !.eng.state.currentPadId = NoPad,
               !.eng.lastUpdateTime = 0]

\* initAudioWorklet(): the first call starts the load of module and binary
initAudioWorklet(w) ==
    IF w.eng.initPromise # "none" THEN w
    ELSE [w EXCEPT !.eng.initPromise = "pending"]

\* await initAudioWorklet(): suspended while the load is pending, else the
\* continuation is queued as a microtask
AwaitInit(w, k) ==
    LET w1 == initAudioWorklet(w) IN
    IF w1.eng.initPromise = "pending"
    THEN [w1 EXCEPT !.pending = Append(@, [k EXCEPT !.wait = "init"])]
    ELSE [w1 EXCEPT !.micro = Append(@, k)]

\* await audioContext.resume() on a suspended context
AwaitResume(w, k) == [w EXCEPT !.pending = Append(@, [k EXCEPT !.wait = "resume"])]

\* envelopeGain.gain.cancelScheduledValues(now): every event of the gain at or
\* after now is removed.  gainRamps counts the ramps scheduled on the gain
\* that no call has cancelled: a ramp of an earlier call either ends at or
\* after now and is removed, or has ended
cancelScheduledValues(w) == [w EXCEPT !.eng.gainRamps = 0]

\* envelopeGain.gain.linearRampToValueAtTime(value, now + t)
linearRampToValueAtTime(w) == [w EXCEPT !.eng.gainRamps = @ + 1]

\* _startPlayback, from the envelope to the end: the play command
StartPlaybackSend(w, k) ==
    LET w0 == linearRampToValueAtTime(
                  cancelScheduledValues([w EXCEPT !.eng.envelopeGain = TRUE]))
        w1 == postMessage(w0, PlayMsg(k.cuePoint, k.duration, k.params)) IN
    [w1 EXCEPT !.eng.state.startTime = w.now,
               !.eng.state.duration = k.duration,
               !.eng.state.isPlaying = TRUE]

\* _startPlayback after 'ready' arrived: the load of the current buffer
StartPlaybackAfterReady(w, k) ==
    StartPlaybackSend(IF w.eng.audioBuffer.present
                      THEN postMessage(w, LoadMsg(w.eng.audioBuffer)) ELSE w, k)

\* _startPlayback from "Create AudioWorkletNode if not exists"
StartPlaybackNode(w, k) ==
    IF ~w.eng.workletNode
    THEN LET w1 == postMessage([w EXCEPT !.eng.workletNode = TRUE], InitMsg) IN
         [w1 EXCEPT !.pending = Append(@, [k EXCEPT !.pc = "sp_ready", !.wait = "ready"])]
    ELSE StartPlaybackSend(w, k)

\* _startPlayback after await initAudioWorklet(): a rejected promise throws
\* into the catch block
StartPlaybackAfterInit(w, k) ==
    IF w.eng.initPromise = "rejected"
    THEN [w EXCEPT !.eng.state.isPlaying = FALSE]
    ELSE IF ~w.eng.wasmBytes THEN w
    ELSE IF w.eng.ctxState = "suspended"
         THEN AwaitResume(w, [k EXCEPT !.pc = "sp_resumed"])
         ELSE StartPlaybackNode(w, k)

\* _startPlayback(cuePoint, duration, params) up to its first await
_startPlayback(w, cuePoint, duration, params) ==
    IF ~w.eng.audioBuffer.present THEN w
    ELSE AwaitInit(w, Task("sp_init", NoPad, cuePoint, duration, params, NoBuffer))

\* play() after the resume, without the reset of an exhausted offset
PlayAfterResumeKeepingOffset(w) ==
    LET w1 == [w EXCEPT !.eng.state.mode = "global",
                        !.eng.state.params = GlobalParams,
                        !.eng.state.cuePoint = w.eng.globalOffset]
        duration == getDuration(w1.eng) - w1.eng.globalOffset
        w3 == [w1 EXCEPT !.eng.lastUpdateTime = 0,
                         !.eng.accumulatedPosition = w1.eng.globalOffset]
    IN  _startPlayback(w3, w3.eng.globalOffset, duration, w3.eng.state.params)

\* play() after "Resume context if needed"
PlayAfterResume(w) ==
    LET w1 == [w EXCEPT !.eng.state.mode = "global",
                        !.eng.state.params = GlobalParams,
                        !.eng.state.cuePoint = w.eng.globalOffset]
        duration == getDuration(w1.eng) - w1.eng.globalOffset
        w2 == IF duration <= 0
              THEN [w1 EXCEPT !.eng.globalOffset = 0, !.eng.state.cuePoint = 0]
              ELSE w1
        w3 == [w2 EXCEPT !.eng.lastUpdateTime = 0,
                         !.eng.accumulatedPosition = w2.eng.globalOffset]
    IN  _startPlayback(w3, w3.eng.globalOffset, duration, w3.eng.state.params)

\* play() without its first guard
PlayIgnoringIsPlaying(w) ==
    IF ~w.eng.audioBuffer.present THEN w
    ELSE LET w1 == _stopPlayback(w) IN
         IF w1.eng.ctxState = "suspended"
         THEN AwaitResume(w1, Task("play_resumed", NoPad, 0, 0, GlobalParams, NoBuffer))
         ELSE PlayAfterResume(w1)

\* play() up to its first await
play(w) ==
    IF w.eng.state.isPlaying THEN w
    ELSE IF ~w.eng.audioBuffer.present THEN w
    ELSE LET w1 == _stopPlayback(w) IN
         IF w1.eng.ctxState = "suspended"
         THEN AwaitResume(w1, Task("play_resumed", NoPad, 0, 0, GlobalParams, NoBuffer))
         ELSE PlayAfterResume(w1)

\* an updatePosition that moves backward whatever the direction
UpdatePositionBackward(w, timeDelta) ==
    LET effectiveSpeed == w.eng.state.params.speed * w.eng.globalSpeed IN
    [w EXCEPT !.eng.accumulatedPosition = @ - timeDelta * effectiveSpeed]

updatePosition(w, timeDelta) ==
    LET effectiveSpeed == w.eng.state.params.speed * w.eng.globalSpeed IN
    IF w.eng.state.params.reverse
    THEN [w EXCEPT !.eng.accumulatedPosition = @ - timeDelta * effectiveSpeed]
    ELSE [w EXCEPT !.eng.accumulatedPosition = @ + timeDelta * effectiveSpeed]

\* a completion check that waits for the whole duration
CheckCompletionWithoutEpsilon(w) ==
    LET effectiveSpeed == w.eng.state.params.speed * w.eng.globalSpeed
        elapsed == w.now - w.eng.state.startTime
        playbackElapsed == elapsed * effectiveSpeed
    IN  IF playbackElapsed >= w.eng.state.duration
        THEN LET w1 == _stopPlayback([w EXCEPT !.eng.state.isPlaying = FALSE])
                 e  == w1.eng
             IN  IF e.state.params.reverse
                 THEN [w1 EXCEPT !.eng.accumulatedPosition = 0]
                 ELSE IF e.state.mode = "pad"
                 THEN [w1 EXCEPT !.eng.accumulatedPosition =
                                     Min(getDuration(e), e.state.cuePoint + e.state.duration)]
                 ELSE LET pos == Min(getDuration(e), e.globalOffset + e.state.duration) IN
                      [w1 EXCEPT !.eng.accumulatedPosition = pos,
                                 !.eng.globalOffset = pos]
        ELSE w

\* a completion check that moves the global resume point in pad mode too
CheckCompletionMovingOffset(w) ==
    LET effectiveSpeed == w.eng.state.params.speed * w.eng.globalSpeed
        elapsed == w.now - w.eng.state.startTime
        playbackElapsed == elapsed * effectiveSpeed
    IN  IF playbackElapsed >= w.eng.state.duration - CompletionEpsilon
        THEN LET w1 == _stopPlayback([w EXCEPT !.eng.state.isPlaying = FALSE])
                 e  == w1.eng
             IN  IF e.state.params.reverse
                 THEN [w1 EXCEPT !.eng.accumulatedPosition = 0]
                 ELSE LET pos == Min(getDuration(e),
                                     (IF e.state.mode = "pad" THEN e.state.cuePoint
                                      ELSE e.globalOffset) + e.state.duration) IN
                      [w1 EXCEPT !.eng.accumulatedPosition = pos,
                                 !.eng.globalOffset = pos]
        ELSE w

checkPlaybackCompletion(w) ==
    LET effectiveSpeed == w.eng.state.params.speed * w.eng.globalSpeed
        elapsed == w.now - w.eng.state.startTime
        playbackElapsed == elapsed * effectiveSpeed
    IN  IF playbackElapsed >= w.eng.state.duration - CompletionEpsilon
        THEN LET w1 == _stopPlayback([w EXCEPT !.eng.state.isPlaying = FALSE])
                 e  == w1.eng
             IN  IF e.state.params.reverse
                 THEN [w1 EXCEPT !.eng.accumulatedPosition = 0]
                 ELSE IF e.state.mode = "pad"
                 THEN [w1 EXCEPT !.eng.accumulatedPosition =
                                     Min(getDuration(e), e.state.cuePoint + e.state.duration)]
                 ELSE LET pos == Min(getDuration(e), e.globalOffset + e.state.duration) IN
                      [w1 EXCEPT !.eng.accumulatedPosition = pos,
                                 !.eng.globalOffset = pos]
        ELSE w

\* getCurrentTime(): [w |-> the world afterwards, value |-> the returned time]
getCurrentTime(w) ==
    LET e == w.eng IN
    IF ~e.state.isPlaying
    THEN [w |-> w,
          value |-> IF e.state.mode = "pad" THEN e.accumulatedPosition
                    ELSE Max(0, Min(getDuration(e), e.globalOffset))]
    ELSE LET last == IF e.lastUpdateTime = 0 THEN e.state.startTime
                     ELSE e.lastUpdateTime
             w1 == updatePosition(w, w.now - last)
             w2 == checkPlaybackCompletion([w1 EXCEPT !.eng.lastUpdateTime = w.now])
         IN  [w |-> w2,
              value |-> Max(0, Min(getDuration(w2.eng), w2.eng.accumulatedPosition))]

\* a pause() that stops but leaves the global offset where it was
PauseKeepingOffset(w) ==
    LET r  == IF w.eng.state.isPlaying THEN getCurrentTime(w)
              ELSE [w |-> w, value |-> w.eng.globalOffset]
        w1 == _stopPlayback(r.w)
    IN  [w1 EXCEPT !.eng.state.mode = "global",
                   !.eng.state.params = GlobalParams,
                   !.eng.state.isPlaying = FALSE,
                   !.eng.state.currentPadId = NoPad]

pause(w) ==
    LET r  == IF w.eng.state.isPlaying THEN getCurrentTime(w)
              ELSE [w |-> w, value |-> w.eng.globalOffset]
        w1 == _stopPlayback(r.w)
    IN  [w1 EXCEPT !.eng.globalOffset = r.value,
                   !.eng.state.mode = "global",
                   !.eng.state.params = GlobalParams,
                   !.eng.state.isPlaying = FALSE,
                   !.eng.state.currentPadId = NoPad]

\* a seek(time) that stores the time as given
SeekUnclamped(w, time) ==
    LET wasPlaying == w.eng.state.isPlaying
        w1  == IF wasPlaying THEN pause(w) ELSE w
        w2  == [w1 EXCEPT !.eng.globalOffset = time,
                          !.eng.state.mode = "global",
                          !.eng.state.params = GlobalParams,
                          !.eng.lastUpdateTime = 0,
                          !.eng.accumulatedPosition = time]
    IN  IF wasPlaying THEN play(w2) ELSE w2

\* seek(time): play() is called without await and runs up to its first await
seek(w, time) ==
    LET wasPlaying == w.eng.state.isPlaying
        w1  == IF wasPlaying THEN pause(w) ELSE w
        off == Max(0, Min(time, getDuration(w1.eng)))
        w2  == [w1 EXCEPT !.eng.globalOffset = off,
                          !.eng.state.mode = "global",
                          !.eng.state.params = GlobalParams,
                          !.eng.lastUpdateTime = 0,
                          !.eng.accumulatedPosition = off]
    IN  IF wasPlaying THEN play(w2) ELSE w2

\* the duration of a trigger computed as if every pad played forward
PadDurationForwardOnly(e, cuePoint, params) == getDuration(e) - cuePoint

\* the duration playPad computes for a trigger
PadDuration(e, cuePoint, params) ==
    IF params.reverse THEN cuePoint ELSE getDuration(e) - cuePoint

\* playPad after the resume, leaving the mode of the engine as it was
PadAfterResumeKeepingMode(w, padId, cuePoint, params) ==
    LET w1 == [w EXCEPT !.eng.state.currentPadId = padId,
                        !.eng.state.cuePoint = cuePoint,
                        !.eng.state.params = params]
        duration == PadDuration(w1.eng, cuePoint, params)
    IN  IF duration <= 0
        THEN [w1 EXCEPT !.eng.state.isPlaying = FALSE]
        ELSE _startPlayback([w1 EXCEPT !.eng.lastUpdateTime = 0,
                                       !.eng.accumulatedPosition = cuePoint],
                            cuePoint, duration, params)

\* playPad after the resume, keeping the cue point of the previous segment
PadAfterResumeKeepingCue(w, padId, cuePoint, params) ==
    LET w1 == [w EXCEPT !.eng.state.mode = "pad",
                        !.eng.state.currentPadId = padId,
                        !.eng.state.params = params]
        duration == PadDuration(w1.eng, cuePoint, params)
    IN  IF duration <= 0
        THEN [w1 EXCEPT !.eng.state.isPlaying = FALSE]
        ELSE _startPlayback([w1 EXCEPT !.eng.lastUpdateTime = 0,
                                       !.eng.accumulatedPosition = cuePoint],
                            cuePoint, duration, params)

\* playPad() after "Resume context if needed"
PadAfterResume(w, padId, cuePoint, params) ==
    LET w1 == [w EXCEPT !.eng.state.mode = "pad",
                        !.eng.state.currentPadId = padId,
                        !.eng.state.cuePoint = cuePoint,
                        !.eng.state.params = params]
        duration == PadDuration(w1.eng, cuePoint, params)
    IN  IF duration <= 0
        THEN [w1 EXCEPT !.eng.state.isPlaying = FALSE]
        ELSE _startPlayback([w1 EXCEPT !.eng.lastUpdateTime = 0,
                                       !.eng.accumulatedPosition = cuePoint],
                            cuePoint, duration, params)

\* playPad(padId, cuePoint, params) up to its first await
playPad(w, padId, cuePoint, params) ==
    IF ~w.eng.audioBuffer.present THEN w
    ELSE LET w1 == IF isPadPlaying(w.eng) THEN _stopPlayback(w) ELSE w IN
         IF w1.eng.ctxState = "suspended"
         THEN AwaitResume(w1, Task("pad_resumed", padId, cuePoint, 0, params, NoBuffer))
         ELSE PadAfterResume(w1, padId, cuePoint, params)

\* what both branches of stopPad do to stop: stop, return to the cue point
StopAndReturn(w, cuePoint) ==
    LET w1 == _stopPlayback(w) IN
    [w1 EXCEPT !.eng.globalOffset = cuePoint,
               !.eng.state.mode = "global",
               !.eng.state.isPlaying = FALSE]

\* a release timer: the cuePoint and currentPadId its callback captured;
\* trigger and started are history: the last playPad call since, and the last
\* one that started a segment
Timer(cuePoint, currentPadId) ==
    [cuePoint |-> cuePoint, currentPadId |-> currentPadId,
     trigger |-> NoPad, started |-> NoPad]

\* a stopPad() that schedules its fade without cancelling what is scheduled
StopPadWithoutCancel(w) ==
    IF isPadPlaying(w.eng)
    THEN IF w.eng.envelopeGain
         THEN [linearRampToValueAtTime(w) EXCEPT !.timers =
                   Append(@, Timer(w.eng.state.cuePoint, w.eng.state.currentPadId))]
         ELSE StopAndReturn(w, w.eng.state.cuePoint)
    ELSE pause(w)

stopPad(w) ==
    IF isPadPlaying(w.eng)
    THEN IF w.eng.envelopeGain
         THEN [linearRampToValueAtTime(cancelScheduledValues(w)) EXCEPT !.timers =
                   Append(@, Timer(w.eng.state.cuePoint, w.eng.state.currentPadId))]
         ELSE StopAndReturn(w, w.eng.state.cuePoint)
    ELSE pause(w)

\* a timer callback that compares the mode alone
ReleaseTimeoutAnyPad(w, t) ==
    IF w.eng.state.mode = "pad"
    THEN StopAndReturn(w, t.cuePoint)
    ELSE w

\* the setTimeout callback of stopPad
ReleaseTimeout(w, t) ==
    IF w.eng.state.mode = "pad" /\ w.eng.state.currentPadId = t.currentPadId
    THEN StopAndReturn(w, t.cuePoint)
    ELSE w

\* setGlobalSpeed(speed): Math.max(0.1, Math.min(4.0, speed)).  The speeds of
\* this model are whole numbers from 1 up, so the lower limit 0.1 never
\* applies.  The tempo parameter of the node it also sets is not part of the
\* engine record.
setGlobalSpeed(w, speed) ==
    [w EXCEPT !.eng.globalSpeed = Max(1, Min(MaxGlobalSpeed, speed))]

\* setAudioBuffer(buffer) up to its await
setAudioBuffer(w, buffer) ==
    AwaitInit([w EXCEPT !.eng.audioBuffer = buffer],
              Task("sab_init", NoPad, 0, 0, GlobalParams, buffer))

\* setAudioBuffer after await initAudioWorklet(): a rejected promise throws
SetAudioBufferAfterInit(w, k) ==
    IF w.eng.initPromise = "rejected" THEN w
    ELSE IF w.eng.workletNode THEN postMessage(w, LoadMsg(k.buffer))
    ELSE w

\* port.onmessage of the engine for 'complete'
OnComplete(w) == _stopPlayback([w EXCEPT !.eng.state.isPlaying = FALSE])

\* the continuation of a suspended call
RunContinuation(w, k) ==
    CASE k.pc = "play_resumed" -> PlayAfterResume(w)
      [] k.pc = "pad_resumed"  -> PadAfterResume(w, k.padId, k.cuePoint, k.params)
      [] k.pc = "sp_init"      -> StartPlaybackAfterInit(w, k)
      [] k.pc = "sp_resumed"   -> StartPlaybackNode(w, k)
      [] k.pc = "sp_ready"     -> StartPlaybackAfterReady(w, k)
      [] k.pc = "sab_init"     -> SetAudioBufferAfterInit(w, k)

\* the microtask checkpoint at the end of a handler: continuations run in
\* the order they were queued, each up to its next await
RECURSIVE Drain(_)
Drain(w) ==
    IF w.micro = <<>> THEN w
    ELSE Drain(RunContinuation([w EXCEPT !.micro = Tail(@)], Head(w.micro)))

\* a promise settles: the calls that await it continue, oldest first
Settle(w, wait) ==
    Drain([w EXCEPT !.micro = @ \o SelectSeq(w.pending, LAMBDA k : k.wait = wait),
                    !.pending = SelectSeq(@, LAMBDA k : k.wait # wait)])

(***************************************************************************)
(* The command side of RubberBandProcessor.                                *)
(***************************************************************************)
NewProcessor ==
    [initialized  |-> FALSE,
     initializing |-> FALSE,
     audioSource  |-> FALSE,
     sourceLength |-> 0,
     isPlaying    |-> FALSE,
     playhead     |-> 0,
     playEnd      |-> 0,
     isReverse    |-> FALSE,
     inputRingBuffer  |-> NoRing,
     outputRingBuffer |-> NoRing,
     rbHeld       |-> <<>>,
     rbAvailable  |-> <<>>]

\* rubberband_reset: the stretcher forgets what it was fed
rubberband_reset(p) == [p EXCEPT !.rbHeld = <<>>, !.rbAvailable = <<>>]

\* initWasm() from rubberband_new to the end, without the 'ready' it posts:
\* the input ring holds two seconds of frames
initWasm(p) ==
    [p EXCEPT !.inputRingBuffer  = NewRingBuffer(SampleRate * 2, Channels),
              !.outputRingBuffer = NewRingBuffer(OutputCapacity, Channels),
              !.initialized      = TRUE,
              !.initializing     = FALSE]

loadAudio(p, data) ==
    [p EXCEPT !.audioSource = TRUE, !.sourceLength = data.durationSamples]

\* a startPlayback() that checks only initialized, not the source
StartPlaybackWithoutSource(p, data) ==
    IF ~p.initialized THEN p
    ELSE LET playEnd == IF data.reverse THEN data.startSample - data.durationSamples
                        ELSE data.startSample + data.durationSamples
             p1 == rubberband_reset(p)
         IN  [p1 EXCEPT !.isPlaying = TRUE,
                        !.isReverse = data.reverse,
                        !.inputRingBuffer  = RBClear(@),
                        !.outputRingBuffer = RBClear(@),
                        !.playhead  = data.startSample,
                        !.playEnd   = Max(0, Min(p.sourceLength, playEnd))]

\* startPlayback(data): startSample and durationSamples are whole numbers
\* here, so Math.floor leaves them as they are
startPlayback(p, data) ==
    IF ~p.initialized \/ ~p.audioSource THEN p
    ELSE LET playEnd == IF data.reverse THEN data.startSample - data.durationSamples
                        ELSE data.startSample + data.durationSamples
             p1 == rubberband_reset(p)
         IN  [p1 EXCEPT !.isPlaying = TRUE,
                        !.isReverse = data.reverse,
                        !.inputRingBuffer  = RBClear(@),
                        !.outputRingBuffer = RBClear(@),
                        !.playhead  = data.startSample,
                        !.playEnd   = Max(0, Min(p.sourceLength, playEnd))]

\* a stopPlayback() that leaves the stretcher and the rings as they are
StopPlaybackKeepingRings(p) == [p EXCEPT !.isPlaying = FALSE]

stopPlayback(p) ==
    IF p.initialized
    THEN LET p1 == rubberband_reset(p) IN
         [p1 EXCEPT !.isPlaying = FALSE,
                    !.inputRingBuffer  = RBClear(@),
                    !.outputRingBuffer = RBClear(@)]
    ELSE [p EXCEPT !.isPlaying = FALSE]

\* remaining = playhead - playEnd (reverse) or playEnd - playhead
Remaining(p) ==
    IF p.isReverse THEN p.playhead - p.playEnd ELSE p.playEnd - p.playhead

\* audioSource[c][i]: every sample of the loaded source is its own value
SourceSample(c, i) == (i + 1) * 10 + c

\* the frames of channel arrays, in order
FramesOf(arrays, n) == [k \in 1..n |-> <<arrays[0][k - 1], arrays[1][k - 1]>>]

\* process(), step 2: the source index of sample i of the chunk: playhead - i
\* backwards, playhead + i forwards
SourceIndex(p, i) == IF p.isReverse THEN p.playhead - i ELSE p.playhead + i

\* process(), step 2: the bounds checks; a sample outside is left 0 and the
\* source is not read
InSource(p, srcIdx, samplesToWrite) ==
    IF p.isReverse THEN srcIdx >= 0 /\ srcIdx < p.sourceLength
    ELSE srcIdx < Min(p.playhead + samplesToWrite, p.sourceLength)

\* a top-up that fills the free space whatever remains of the segment
SamplesToWriteFreeSpace(p) ==
    LET availableSpace == p.inputRingBuffer.capacity - p.inputRingBuffer.available
    IN  IF ~(p.isPlaying /\ p.audioSource) \/ availableSpace <= 0
        THEN 0
        ELSE availableSpace

\* process(), step 2: samplesToWrite = min(free space, remaining), 0 when
\* nothing remains or the ring is full
SamplesToWrite(p) ==
    LET availableSpace == p.inputRingBuffer.capacity - p.inputRingBuffer.available
        remaining == Remaining(p)
    IN  IF ~(p.isPlaying /\ p.audioSource) \/ availableSpace <= 0 \/ remaining <= 0
        THEN 0
        ELSE Min(availableSpace, remaining)

\* process(), step 2: chunkLeft and chunkRight, filled from the source
TopUpChunk(p) ==
    LET samplesToWrite == SamplesToWrite(p) IN
    [c \in 0..(Channels - 1) |->
        [i \in 0..(samplesToWrite - 1) |->
            IF InSource(p, SourceIndex(p, i), samplesToWrite)
            THEN SourceSample(c, SourceIndex(p, i)) ELSE 0]]

\* process(), step 2: top up the input ring from the source
FeedInputRing(p) ==
    LET samplesToWrite == SamplesToWrite(p) IN
    IF samplesToWrite <= 0 THEN p
    ELSE [p EXCEPT !.playhead = IF p.isReverse THEN @ - samplesToWrite
                                ELSE @ + samplesToWrite,
                   !.inputRingBuffer = RBWrite(@, TopUpChunk(p)).ring]

\* process(), step 3: one chunk from the input ring to the stretcher when the
\* output ring is low
FeedRubberBand(p) ==
    IF /\ p.outputRingBuffer.available < TargetOutputLevel
       /\ p.inputRingBuffer.available >= ChunkSize
    THEN LET r == RBRead(p.inputRingBuffer, FreshOutput(ChunkSize), ChunkSize) IN
         [p EXCEPT !.inputRingBuffer = r.ring,
                   !.rbHeld = @ \o FramesOf(r.out, ChunkSize)]
    ELSE p

\* a step 4 that posts 'complete' and leaves the segment active
CompleteWithoutClearing(p) ==
    IF Len(p.rbAvailable) > 0
    THEN [p |-> [p EXCEPT !.outputRingBuffer = RBWrite(@, ChannelData(p.rbAvailable)).ring,
                          !.rbAvailable = <<>>],
          complete |-> FALSE]
    ELSE IF /\ p.isPlaying
            /\ p.inputRingBuffer.available = 0
            /\ p.outputRingBuffer.available = 0
            /\ Remaining(p) <= 0
         THEN [p |-> p, complete |-> TRUE]
         ELSE [p |-> p, complete |-> FALSE]

\* process(), step 4: what the stretcher has goes to the output ring; with
\* nothing there, nothing remaining and both rings empty the segment is
\* complete.  [p |-> the processor, complete |-> 'complete' was posted]
RetrieveOrComplete(p) ==
    IF Len(p.rbAvailable) > 0
    THEN [p |-> [p EXCEPT !.outputRingBuffer = RBWrite(@, ChannelData(p.rbAvailable)).ring,
                          !.rbAvailable = <<>>],
          complete |-> FALSE]
    ELSE IF /\ p.isPlaying
            /\ p.inputRingBuffer.available = 0
            /\ p.outputRingBuffer.available = 0
            /\ Remaining(p) <= 0
         THEN [p |-> [p EXCEPT !.isPlaying = FALSE], complete |-> TRUE]
         ELSE [p |-> p, complete |-> FALSE]

\* process(), steps 2 to 4: the processor as step 5 finds it
BeforeDelivery(p) == RetrieveOrComplete(FeedRubberBand(FeedInputRing(p)))

\* process(): [p |-> the processor afterwards, complete |-> 'complete' was
\* posted, out |-> outputs[0]]; step 5 hands out one quantum or silence
process(p) ==
    IF ~p.initialized THEN [p |-> p, complete |-> FALSE, out |-> FreshOutput(FramesNeeded)]
    ELSE LET r4 == BeforeDelivery(p)
             r5 == RBRead(r4.p.outputRingBuffer, FreshOutput(FramesNeeded), FramesNeeded)
         IN  [p |-> [r4.p EXCEPT !.outputRingBuffer = r5.ring],
              complete |-> r4.complete,
              out |-> r5.out]

(***************************************************************************)
(* The state after construction.                                           *)
(***************************************************************************)
\* what the control side says is playing: a pad id, "global" or nothing
Active(e) ==
    IF ~e.state.isPlaying THEN NoPad
    ELSE IF e.state.mode = "pad" THEN e.state.currentPadId
    ELSE "global"

\* the event handled last: its name and arguments; prev is what was playing
\* when the handler began; for a release timer also the history it
\* carried
Event(op, padId, cuePoint, params) ==
    [op |-> op, padId |-> padId, cuePoint |-> cuePoint, params |-> params,
     prev |-> NoPad, trigger |-> NoPad, started |-> NoPad]

\* an event no property asks about
OtherEvent == Event("other", NoPad, 0, GlobalParams)

Init ==
    /\ ring = NewRingBuffer(RBCapacity, Channels)
    /\ rbOut = FreshOutput(0)
    /\ rbLast = [op |-> "new", n |-> 0, ret |-> 0]
    /\ rbFifo = <<>>
    /\ eng = NewAudioEngine
    /\ pending = <<>>
    /\ timers = <<>>
    /\ toWorklet = <<>>
    /\ toEngine = <<>>
    /\ proc = NewProcessor
    /\ now = 0
    /\ lastEvent = Event("new", NoPad, 0, GlobalParams)
    /\ calls = 0

(***************************************************************************)
(* The RingBuffer driven by arbitrary calls.                               *)
(***************************************************************************)
\* sequences over S of length n
SeqsOfLen(S, n) == [1..n -> S]

DropFirst(s, n) == SubSeq(s, n + 1, Len(s))

RBWriteCall ==
    \E n \in 0..MaxFrames :
      \E frames \in SeqsOfLen(FrameSet, n) :
        LET r == RBWrite(ring, ChannelData(frames)) IN
        /\ ring' = r.ring
        /\ rbLast' = [op |-> "write", n |-> n, ret |-> IF r.ret THEN 1 ELSE 0]
        /\ rbFifo' = IF r.ret THEN rbFifo \o frames ELSE rbFifo
        /\ UNCHANGED <<rbOut, engVars>>

RBReadCall ==
    \E n \in 0..MaxFrames :
        LET r == RBRead(ring, FreshOutput(n), n) IN
        /\ ring' = r.ring
        /\ rbOut' = r.out
        /\ rbLast' = [op |-> "read", n |-> n, ret |-> r.ret]
        /\ rbFifo' = IF r.ret = n THEN DropFirst(rbFifo, n) ELSE rbFifo
        /\ UNCHANGED engVars

RBClearCall ==
    /\ ring' = RBClear(ring)
    /\ rbLast' = [op |-> "clear", n |-> 0, ret |-> 0]
    /\ rbFifo' = <<>>
    /\ UNCHANGED <<rbOut, engVars>>

NextRB ==
    \/ RBWriteCall
    \/ RBReadCall
    \/ RBClearCall

SpecRB == Init /\ [][NextRB]_vars

(***************************************************************************)
(* The engine and the processor driven by the user, the timers, the port   *)
(* and the clock.  Every handler runs to its end, microtasks included.     *)
(***************************************************************************)
World ==
    [eng |-> eng, pending |-> pending, micro |-> <<>>, timers |-> timers,
     toWorklet |-> toWorklet, now |-> now]

\* the control side after a handler, within the bounds of the model
Commit(w, ev) ==
    /\ Len(w.toWorklet) <= MaxQueue
    /\ Len(w.pending) <= MaxPending
    /\ Len(w.timers) <= MaxTimers
    /\ eng' = w.eng
    /\ pending' = w.pending
    /\ timers' = w.timers
    /\ toWorklet' = w.toWorklet
    /\ lastEvent' = ev

\* the user issues one more command
UserCall ==
    /\ calls < MaxCalls
    /\ calls' = calls + 1

SetAudioBufferCall ==
    /\ UserCall
    /\ Commit(Drain(setAudioBuffer(World, AudioBuffer(SrcDuration))),
              OtherEvent)
    /\ UNCHANGED <<toEngine, proc, now, rbVars>>

PlayCall ==
    /\ UserCall
    /\ Commit(Drain(play(World)),
              [Event("play", NoPad, 0, GlobalParams) EXCEPT !.prev = Active(eng)])
    /\ UNCHANGED <<toEngine, proc, now, rbVars>>

PauseCall ==
    /\ UserCall
    /\ Commit(Drain(pause(World)),
              [Event("pause", NoPad, 0, GlobalParams) EXCEPT !.prev = Active(eng)])
    /\ UNCHANGED <<toEngine, proc, now, rbVars>>

SeekCall ==
    \E time \in SeekTimes :
        /\ UserCall
        /\ Commit(Drain(seek(World, time)),
                  [Event("seek", NoPad, time, GlobalParams) EXCEPT !.prev = Active(eng)])
        /\ UNCHANGED <<toEngine, proc, now, rbVars>>

\* the call posted a play command and left the engine playing
StartedSegment(w) ==
    /\ w.eng.state.isPlaying
    /\ Len(w.toWorklet) > Len(toWorklet)
    /\ w.toWorklet[Len(w.toWorklet)].type = "play"

\* the history of the pending release timers after a playPad call
NoteTrigger(w, padId) ==
    [w EXCEPT !.timers =
        [i \in DOMAIN w.timers |->
            [w.timers[i] EXCEPT !.trigger = padId,
                                !.started = IF StartedSegment(w) THEN padId ELSE @]]]

PlayPadCall ==
    \E padId \in Pads, cuePoint \in Cues, params \in PadParamsSet :
        /\ UserCall
        /\ Commit(NoteTrigger(Drain(playPad(World, padId, cuePoint, params)), padId),
                  [Event("playPad", padId, cuePoint, params)
                     EXCEPT !.prev = Active(eng)])
        /\ UNCHANGED <<toEngine, proc, now, rbVars>>

StopPadCall ==
    /\ UserCall
    /\ Commit(Drain(stopPad(World)), OtherEvent)
    /\ UNCHANGED <<toEngine, proc, now, rbVars>>

\* the animation-frame loop polls the position
GetCurrentTimeCall ==
    /\ Commit(Drain(getCurrentTime(World).w),
              Event("getCurrentTime", NoPad, 0, GlobalParams))
    /\ UNCHANGED <<toEngine, proc, now, calls, rbVars>>

\* the oldest release timer fires
ReleaseTimerFires ==
    /\ timers # <<>>
    /\ Commit(Drain(ReleaseTimeout([World EXCEPT !.timers = Tail(@)], Head(timers))),
              [Event("releaseTimeout", Head(timers).currentPadId,
                     Head(timers).cuePoint, GlobalParams)
                 EXCEPT !.trigger = Head(timers).trigger,
                        !.started = Head(timers).started])
    /\ UNCHANGED <<toEngine, proc, now, calls, rbVars>>

\* audioContext.resume() resolves for every call that awaits it
ContextResumes ==
    /\ eng.ctxState = "suspended"
    /\ \E i \in DOMAIN pending : pending[i].wait = "resume"
    /\ Commit(Settle([World EXCEPT !.eng.ctxState = "running"], "resume"),
              OtherEvent)
    /\ UNCHANGED <<toEngine, proc, now, calls, rbVars>>

\* addModule and the fetch of the binary succeed
InitSucceeds ==
    /\ eng.initPromise = "pending"
    /\ Commit(Settle([World EXCEPT !.eng.initPromise = "resolved",
                                   !.eng.wasmBytes = TRUE], "init"),
              OtherEvent)
    /\ UNCHANGED <<toEngine, proc, now, calls, rbVars>>

\* addModule or the fetch of the binary fails
InitFails ==
    /\ eng.initPromise = "pending"
    /\ Commit(Settle([World EXCEPT !.eng.initPromise = "rejected"], "init"),
              OtherEvent)
    /\ UNCHANGED <<toEngine, proc, now, calls, rbVars>>

\* workletNode.port.onmessage of the engine
EngineReceives ==
    /\ toEngine # <<>>
    /\ toEngine' = Tail(toEngine)
    /\ LET type == Head(toEngine) IN
       Commit(CASE type = "ready"    -> Settle(World, "ready")
                [] type = "complete" -> Drain(OnComplete(World))
                [] OTHER             -> World,
              IF type = "complete"
              THEN [Event("complete", NoPad, 0, GlobalParams) EXCEPT !.prev = Active(eng)]
              ELSE OtherEvent)
    /\ UNCHANGED <<proc, now, calls, rbVars>>

\* port.onmessage of the processor; init suspends in initWasm.  The 'loaded'
\* that loadAudio posts is left out: the engine's onmessage ignores it.
ProcessorReceives ==
    /\ toWorklet # <<>>
    /\ toWorklet' = Tail(toWorklet)
    /\ LET data == Head(toWorklet) IN
       /\ proc' = CASE data.type = "init" -> [proc EXCEPT !.initializing = TRUE]
                    [] data.type = "load" -> loadAudio(proc, data)
                    [] data.type = "play" -> startPlayback(proc, data)
                    [] data.type = "stop" -> stopPlayback(proc)
       /\ toEngine' = toEngine
       /\ lastEvent' = IF data.type = "play"
                       THEN Event("startPlayback", NoPad, data.startSample,
                                  [speed |-> data.durationSamples,
                                   reverse |-> data.reverse])
                       ELSE OtherEvent
    /\ UNCHANGED <<eng, pending, timers, now, calls, rbVars>>

\* initWasm finishes: the rings exist, 'ready' is posted
ProcessorReady ==
    /\ proc.initializing
    /\ ~proc.initialized
    /\ Len(toEngine) < MaxQueue
    /\ proc' = initWasm(proc)
    /\ toEngine' = Append(toEngine, "ready")
    /\ lastEvent' = OtherEvent
    /\ UNCHANGED <<eng, pending, timers, toWorklet, now, calls, rbVars>>

\* process(), step 2, over as many callbacks as it takes: the source frames
\* that remain leave the source and the playhead moves by as many.  The
\* rings and the stretcher are left out of this action; RenderCallback has
\* them.
ProcessFeeds ==
    /\ proc.initialized
    /\ proc.isPlaying
    /\ proc.audioSource
    /\ Remaining(proc) > 0
    /\ LET samplesToWrite == Remaining(proc) IN
          proc' = [proc EXCEPT !.playhead = IF proc.isReverse
                                            THEN @ - samplesToWrite
                                            ELSE @ + samplesToWrite]
    /\ lastEvent' = OtherEvent
    /\ UNCHANGED <<eng, pending, timers, toWorklet, toEngine, now, calls, rbVars>>

\* process(), step 4, once nothing remains: the rings are taken to have
\* drained.  RenderCallback has the rings.
ProcessCompletes ==
    /\ proc.initialized
    /\ proc.isPlaying
    /\ Remaining(proc) <= 0
    /\ Len(toEngine) < MaxQueue
    /\ proc' = [proc EXCEPT !.isPlaying = FALSE]
    /\ toEngine' = Append(toEngine, "complete")
    /\ lastEvent' = OtherEvent
    /\ UNCHANGED <<eng, pending, timers, toWorklet, now, calls, rbVars>>

\* the clock of a running context advances
Tick ==
    /\ eng.ctxState = "running"
    /\ now < MaxTime
    /\ now' = now + 1
    /\ lastEvent' = OtherEvent
    /\ UNCHANGED <<eng, pending, timers, toWorklet, toEngine, proc, calls, rbVars>>

Next ==
    \/ SetAudioBufferCall
    \/ PlayCall
    \/ PauseCall
    \/ SeekCall
    \/ PlayPadCall
    \/ StopPadCall
    \/ GetCurrentTimeCall
    \/ ReleaseTimerFires
    \/ ContextResumes
    \/ InitSucceeds
    \/ InitFails
    \/ EngineReceives
    \/ ProcessorReceives
    \/ ProcessorReady
    \/ ProcessFeeds
    \/ ProcessCompletes
    \/ Tick

Spec == Init /\ [][Next]_vars


(***************************************************************************)
(* Properties of the RingBuffer (checked under SpecRB).                    *)
(***************************************************************************)
\* C1: after every write, read and clear call, 0 <= available <= capacity.
C1_AvailableWithinCapacity ==
    /\ 0 <= ring.available
    /\ ring.available <= ring.capacity

\* a write filled the buffer to capacity after the indices had wrapped
C1_Witness ==
    /\ rbLast.op = "write"
    /\ rbLast.ret = 1
    /\ ring.available = ring.capacity
    /\ ring.readIndex > 0

\* C2: FIFO across wrap-around: every accepted read returns, per channel and
\* in order, exactly the oldest frames accepted by write since the last clear
\* and not yet read, and the buffer holds as many frames as are outstanding.
C2_FifoRoundTrip ==
    /\ [](Len(rbFifo) = ring.available)
    /\ [][(rbLast'.op = "read" /\ rbLast'.n <= ring.available)
            => /\ rbLast'.ret = rbLast'.n
               /\ rbOut' = ChannelData(SubSeq(rbFifo, 1, rbLast'.n))]_vars

\* an accepted read of distinct frames whose indices wrapped past the end
C2_Witness ==
    /\ rbLast.op = "read"
    /\ rbLast.ret >= 2
    /\ ring.readIndex >= 1
    /\ ring.readIndex < rbLast.ret
    /\ rbOut[0][0] # rbOut[0][1]

\* C3: a write of n frames with available + n > capacity returns false and
\* leaves writeIndex, readIndex, available and the stored frames unchanged.
C3_OverflowWriteRejected ==
    [][(rbLast'.op = "write" /\ ring.available + rbLast'.n > ring.capacity)
         => (rbLast'.ret = 0 /\ ring' = ring)]_vars

\* a write that would have fitted an empty buffer was rejected by a
\* partly filled one (write 2 of 3 succeeds, the next write of 2 fails)
C3_Witness ==
    /\ rbLast.op = "write"
    /\ rbLast.ret = 0
    /\ rbLast.n <= ring.capacity
    /\ ring.available > 0
    /\ ring.available < ring.capacity

\* C4: a read of more frames than available returns 0 and leaves readIndex,
\* writeIndex, available, the storage and the output arrays unchanged.
C4_UnderrunReadRejected ==
    [][(rbLast'.op = "read" /\ rbLast'.n > ring.available)
         => /\ rbLast'.ret = 0
            /\ ring' = ring
            /\ rbOut' = FreshOutput(rbLast'.n)]_vars

\* a read was rejected although some frames were available
C4_Witness ==
    /\ rbLast.op = "read"
    /\ rbLast.ret = 0
    /\ rbLast.n > ring.available
    /\ ring.available > 0

(***************************************************************************)
(* Properties of the pad triggers and the transport (checked under Spec).  *)
(***************************************************************************)
\* C5: monophony.  A playPad call with a positive duration, made while a pad
\* segment is playing, leaves mode, active pad id, cue point, params and
\* duration of the control state all those of the new trigger and posts
\* stop and then the play command of the new segment; and when the processor
\* handles the play command of the segment the control state describes, its
\* playhead, playEnd and direction are those of that segment alone.
C5_PadSupersedesPad ==
    /\ [][(/\ lastEvent'.op = "playPad"
            /\ isPadPlaying(eng)
            /\ PadDuration(eng, lastEvent'.cuePoint, lastEvent'.params) > 0)
          => LET duration == PadDuration(eng, lastEvent'.cuePoint, lastEvent'.params) IN
             /\ eng'.state.mode = "pad"
             /\ eng'.state.currentPadId = lastEvent'.padId
             /\ eng'.state.cuePoint = lastEvent'.cuePoint
             /\ eng'.state.params = lastEvent'.params
             /\ eng'.state.duration = duration
             /\ eng'.state.isPlaying
             /\ toWorklet' = toWorklet \o
                   <<StopMsg, PlayMsg(lastEvent'.cuePoint, duration, lastEvent'.params)>>]_vars
    /\ [][(/\ lastEvent'.op = "startPlayback"
            /\ proc.initialized
            /\ proc.audioSource
            /\ isPadPlaying(eng)
            /\ eng.state.duration > 0
            /\ Head(toWorklet) = PlayMsg(eng.state.cuePoint, eng.state.duration,
                                         eng.state.params))
          => LET st == eng.state
                 end == IF st.params.reverse THEN st.cuePoint - st.duration
                        ELSE st.cuePoint + st.duration IN
             /\ proc'.isPlaying
             /\ proc'.playhead = st.cuePoint * SampleRate
             /\ proc'.isReverse = st.params.reverse
             /\ proc'.playEnd = Max(0, Min(proc.sourceLength, end * SampleRate))]_vars

\* pad B was triggered while pad A was playing on the control side and
\* rendering on the other: B is the active pad, stop and B's play are queued
C5_Witness ==
    /\ lastEvent.op = "playPad"
    /\ lastEvent.prev \in Pads
    /\ lastEvent.prev # lastEvent.padId
    /\ proc.isPlaying
    /\ isPadPlaying(eng)
    /\ eng.state.currentPadId = lastEvent.padId
    /\ Len(toWorklet) = 2
    /\ toWorklet[1] = StopMsg
    /\ toWorklet[2].type = "play"

\* C6: a release timer set by stopPad while a pad A was the active pad, that
\* fires after the latest playPad call since then named another pad, is a
\* no-op: no message is posted, the control state (globalOffset, mode,
\* isPlaying and the rest) and the processor are as before.
C6_ReleaseAfterOtherPadIsNoOp ==
    [][(/\ lastEvent'.op = "releaseTimeout"
        /\ lastEvent'.padId \in Pads
        /\ lastEvent'.trigger \in Pads
        /\ lastEvent'.trigger # lastEvent'.padId)
      => /\ eng' = eng
         /\ toWorklet' = toWorklet
         /\ proc' = proc]_vars

\* the timer of pad A's release fired while pad B, triggered and started in
\* between, was playing
C6_Witness ==
    /\ lastEvent.op = "releaseTimeout"
    /\ lastEvent.padId \in Pads
    /\ lastEvent.started \in Pads
    /\ lastEvent.started # lastEvent.padId
    /\ lastEvent.trigger = lastEvent.started
    /\ isPadPlaying(eng)
    /\ eng.state.currentPadId = lastEvent.started

\* C7: a release timer that fires while a pad segment started after its
\* stopPad is playing, whatever the id of that pad, leaves the segment
\* playing and posts no message.
C7_ReleaseNeverStopsNewSegment ==
    [][(/\ lastEvent'.op = "releaseTimeout"
        /\ lastEvent'.started # NoPad
        /\ isPadPlaying(eng))
      => /\ eng'.state.isPlaying
         /\ toWorklet' = toWorklet]_vars

\* C8: a playPad call whose computed duration is <= 0 posts no message and
\* leaves mode, active pad id, cue point, params, isPlaying and globalOffset
\* as they were.
C8_InvalidTriggerLeavesStateUnchanged ==
    [][(/\ lastEvent'.op = "playPad"
        /\ eng.audioBuffer.present
        /\ PadDuration(eng, lastEvent'.cuePoint, lastEvent'.params) <= 0)
      => /\ toWorklet' = toWorklet
         /\ eng'.state.mode = eng.state.mode
         /\ eng'.state.currentPadId = eng.state.currentPadId
         /\ eng'.state.cuePoint = eng.state.cuePoint
         /\ eng'.state.params = eng.state.params
         /\ eng'.state.isPlaying = eng.state.isPlaying
         /\ eng'.globalOffset = eng.globalOffset]_vars

\* C9: play() called while the engine is playing, in either mode, or while no
\* source is loaded posts no message, changes no field of the engine,
\* suspends no call and starts no timer.
C9_PlayNoOp ==
    [][(/\ lastEvent'.op = "play"
        /\ (eng.state.isPlaying \/ ~eng.audioBuffer.present))
      => /\ eng' = eng
         /\ toWorklet' = toWorklet
         /\ pending' = pending
         /\ timers' = timers]_vars

\* play() was called while a pad segment was playing
C9_Witness ==
    /\ lastEvent.op = "play"
    /\ lastEvent.prev \in Pads
    /\ isPadPlaying(eng)
    /\ eng.state.currentPadId = lastEvent.prev

Warm(e) ==
    /\ e.audioBuffer.present
    /\ e.ctxState = "running"
    /\ e.initPromise = "resolved"
    /\ e.workletNode

\* C11: play() on an idle, warm engine sets mode global and the params to
\* unity and leaves the engine playing; with duration = total length -
\* globalOffset > 0 it posts stop and then a forward play command that starts
\* at globalOffset and has that duration; with duration <= 0 it resets
\* globalOffset to 0 and the play command it posts is forward and starts at
\* sample 0.
C11_PlayFromIdle ==
    [][(/\ lastEvent'.op = "play"
        /\ ~eng.state.isPlaying
        /\ Warm(eng))
      => LET duration == getDuration(eng) - eng.globalOffset
             n == Len(toWorklet') IN
         /\ eng'.state.mode = "global"
         /\ eng'.state.params = GlobalParams
         /\ eng'.state.isPlaying
         /\ n = Len(toWorklet) + 2
         /\ toWorklet'[n].type = "play"
         /\ toWorklet'[n].reverse = FALSE
         /\ IF duration > 0
            THEN /\ eng'.globalOffset = eng.globalOffset
                 /\ toWorklet' = toWorklet \o
                       <<StopMsg, PlayMsg(eng.globalOffset, duration, GlobalParams)>>
            ELSE /\ eng'.globalOffset = 0
                 /\ eng'.state.cuePoint = 0
                 /\ toWorklet'[n].startSample = 0]_vars

\* play() was called on an idle engine whose offset was at the end of the
\* source: the offset is back at 0 and a play command starting at sample 0
\* is queued
C11_Witness ==
    /\ lastEvent.op = "play"
    /\ lastEvent.prev = NoPad
    /\ eng.state.isPlaying
    /\ eng.state.mode = "global"
    /\ eng.state.duration <= 0
    /\ eng.globalOffset = 0
    /\ toWorklet # <<>>
    /\ toWorklet[Len(toWorklet)].type = "play"
    /\ toWorklet[Len(toWorklet)].startSample = 0

\* C12: after pause() isPlaying is false, mode is global and the active pad
\* id is null; if the node exists the last message posted is a stop; and
\* globalOffset is the position getCurrentTime() reported at the call if
\* the engine was playing, the unchanged globalOffset if it was not.
C12_PauseStopsAtReportedPosition ==
    [][(lastEvent'.op = "pause")
      => /\ ~eng'.state.isPlaying
         /\ eng'.state.mode = "global"
         /\ eng'.state.currentPadId = NoPad
         /\ eng.workletNode
              => /\ Len(toWorklet') > Len(toWorklet)
                 /\ toWorklet'[Len(toWorklet')] = StopMsg
         /\ eng'.globalOffset = IF eng.state.isPlaying
                                THEN getCurrentTime(World).value
                                ELSE eng.globalOffset]_vars

\* global playback was paused part of the way through the source, some time
\* after it started
C12_Witness ==
    /\ lastEvent.op = "pause"
    /\ lastEvent.prev = "global"
    /\ eng.state.startTime < now
    /\ eng.globalOffset > 0
    /\ eng.globalOffset < getDuration(eng)
    /\ ~eng.state.isPlaying
    /\ toWorklet # <<>>
    /\ toWorklet[Len(toWorklet)] = StopMsg

\* t clamped to the source: min(max(t, 0), duration)
Clamp(e, t) == Min(Max(t, 0), getDuration(e))

\* C13 as stated: after seek(t) globalOffset is t clamped to the source; an
\* engine that was playing is playing again in global mode, its play command
\* starting at the clamped position; an engine that was not stays idle.
C13_SeekClampsAndResumes ==
    [][(lastEvent'.op = "seek")
      => LET c == Clamp(eng, lastEvent'.cuePoint)
             n == Len(toWorklet') IN
         /\ eng'.globalOffset = c
         /\ IF eng.state.isPlaying
            THEN /\ isGlobalPlaying(eng')
                 /\ n > Len(toWorklet)
                 /\ toWorklet'[n].type = "play"
                 /\ toWorklet'[n].startSample = c * SampleRate
            ELSE eng'.state.isPlaying = FALSE]_vars

\* C13 amended: as above, except that a seek to the end of the source (or
\* past it) of an engine that was playing leaves globalOffset at 0 and a
\* play command that starts at sample 0.
C13_SeekClampsAndResumesOrRestarts ==
    [][(lastEvent'.op = "seek")
      => LET c == Clamp(eng, lastEvent'.cuePoint)
             n == Len(toWorklet')
             start == IF eng.state.isPlaying /\ c >= getDuration(eng) THEN 0 ELSE c IN
         /\ eng'.globalOffset = start
         /\ IF eng.state.isPlaying
            THEN /\ isGlobalPlaying(eng')
                 /\ eng'.state.cuePoint = start
                 /\ n > Len(toWorklet)
                 /\ toWorklet'[n].type = "play"
                 /\ toWorklet'[n].startSample = start * SampleRate
                 /\ toWorklet'[n].reverse = FALSE
            ELSE eng'.state.isPlaying = FALSE]_vars

\* a seek into the middle of the source while the engine was playing: it
\* plays again, in global mode, from there
C13_Witness ==
    /\ lastEvent.op = "seek"
    /\ lastEvent.prev # NoPad
    /\ lastEvent.cuePoint > 0
    /\ lastEvent.cuePoint < getDuration(eng)
    /\ isGlobalPlaying(eng)
    /\ eng.globalOffset = lastEvent.cuePoint
    /\ eng.state.cuePoint = lastEvent.cuePoint
    /\ toWorklet[Len(toWorklet)].type = "play"

(***************************************************************************)
(* The round trip seek(t); play(); pause() on a new engine: the user loads *)
(* a source and issues exactly these commands in this order, while the     *)
(* context, the loads, the port, the polls and the clock go on as in Spec. *)
(***************************************************************************)
LoadFirst == calls = 0 /\ SetAudioBufferCall

SeekSecond == calls = 1 /\ SeekCall

PlayThird == calls = 2 /\ PlayCall

PauseFourth == calls = 3 /\ PauseCall

NextRoundTrip ==
    \/ LoadFirst
    \/ SeekSecond
    \/ PlayThird
    \/ PauseFourth
    \/ GetCurrentTimeCall
    \/ ContextResumes
    \/ InitSucceeds
    \/ InitFails
    \/ EngineReceives
    \/ ProcessorReceives
    \/ ProcessorReady
    \/ ProcessFeeds
    \/ ProcessCompletes
    \/ Tick

SpecRoundTrip == Init /\ [][NextRoundTrip]_vars

\* |a - b|
Dist(a, b) == IF a >= b THEN a - b ELSE b - a

\* the position the round trip should report when the engine, playing since
\* startTime from the position t it was sought to, is paused now
StartPlusElapsed == eng.state.cuePoint + (now - eng.state.startTime)

\* C14 as stated (checked under SpecRoundTrip): for t before the end of the
\* source, a pause() while the segment plays and no later than the end of
\* the source leaves globalOffset at t plus the time elapsed since playback
\* started.  One render quantum (128 frames, under 3 ms) is less than one
\* time unit, so "within one render quantum" is equality here.
C14_PauseAtStartPlusElapsed ==
    [][(/\ lastEvent'.op = "pause"
        /\ isGlobalPlaying(eng)
        /\ eng.state.duration > 0
        /\ StartPlusElapsed <= getDuration(eng))
      => eng'.globalOffset = StartPlusElapsed]_vars

\* C14 amended (checked under SpecRoundTrip): the same, within the
\* completion epsilon (10 ms) instead of one render quantum.
C14_PauseNearStartPlusElapsed ==
    [][(/\ lastEvent'.op = "pause"
        /\ isGlobalPlaying(eng)
        /\ eng.state.duration > 0
        /\ StartPlusElapsed <= getDuration(eng))
      => /\ Dist(eng'.globalOffset, StartPlusElapsed) <= CompletionEpsilon
         /\ eng'.globalOffset >= StartPlusElapsed
         /\ eng'.globalOffset <= getDuration(eng)]_vars

\* playback that started at a sought position after the start of the source
\* was paused some time later, before its end
C14_Witness ==
    /\ lastEvent.op = "pause"
    /\ lastEvent.prev = "global"
    /\ calls = 4
    /\ eng.state.cuePoint > 0
    /\ now > eng.state.startTime
    /\ StartPlusElapsed < getDuration(eng)
    /\ Dist(eng.globalOffset, StartPlusElapsed) <= CompletionEpsilon

\* a trigger playPad accepts: its segment has a positive length
ValidTrigger(e, cuePoint, params) ==
    IF params.reverse THEN cuePoint > 0 ELSE cuePoint < getDuration(e)

\* C15: on an engine that starts without waiting, a valid playPad(cue,
\* params) posts exactly one play command (after the stop of the pad it
\* replaces, if one played): reverse -> startSample = cue * sampleRate,
\* length = cue * sampleRate, reverse = true; forward -> startSample =
\* cue * sampleRate, length = (totalLength - cue) * sampleRate, reverse =
\* false.
C15_ValidPadSendsItsSegment ==
    [][(/\ lastEvent'.op = "playPad"
        /\ Warm(eng)
        /\ ValidTrigger(eng, lastEvent'.cuePoint, lastEvent'.params))
      => LET cue == lastEvent'.cuePoint
             total == getDuration(eng)
             segment == IF lastEvent'.params.reverse
                        THEN Msg("play", cue * SampleRate, cue * SampleRate, TRUE)
                        ELSE Msg("play", cue * SampleRate,
                                 (total - cue) * SampleRate, FALSE)
         IN  toWorklet' = toWorklet
                            \o (IF isPadPlaying(eng) THEN <<StopMsg>> ELSE <<>>)
                            \o <<segment>>]_vars

\* a reverse trigger replaced a playing pad: stop, then the play command of
\* the segment from the cue down to 0
C15_Witness ==
    /\ lastEvent.op = "playPad"
    /\ lastEvent.prev \in Pads
    /\ lastEvent.params.reverse
    /\ lastEvent.cuePoint > 0
    /\ lastEvent.cuePoint < getDuration(eng)
    /\ Len(toWorklet) >= 2
    /\ toWorklet[Len(toWorklet) - 1] = StopMsg
    /\ toWorklet[Len(toWorklet)] =
           Msg("play", lastEvent.cuePoint * SampleRate,
               lastEvent.cuePoint * SampleRate, TRUE)

(***************************************************************************)
(* The release of a pad left to itself: while a release timer is pending   *)
(* the user issues no command; the polls, the port, the loads and the      *)
(* clock go on as in Spec.                                                 *)
(***************************************************************************)
LoadOutsideRelease == timers = <<>> /\ SetAudioBufferCall

PlayOutsideRelease == timers = <<>> /\ PlayCall

PauseOutsideRelease == timers = <<>> /\ PauseCall

SeekOutsideRelease == timers = <<>> /\ SeekCall

PlayPadOutsideRelease == timers = <<>> /\ PlayPadCall

StopPadOutsideRelease == timers = <<>> /\ StopPadCall

NextRelease ==
    \/ LoadOutsideRelease
    \/ PlayOutsideRelease
    \/ PauseOutsideRelease
    \/ SeekOutsideRelease
    \/ PlayPadOutsideRelease
    \/ StopPadOutsideRelease
    \/ GetCurrentTimeCall
    \/ ReleaseTimerFires
    \/ ContextResumes
    \/ InitSucceeds
    \/ InitFails
    \/ EngineReceives
    \/ ProcessorReceives
    \/ ProcessorReady
    \/ ProcessFeeds
    \/ ProcessCompletes
    \/ Tick

SpecRelease == Init /\ [][NextRelease]_vars

\* C16 (checked under SpecRelease, where only polls, port messages, loads
\* and clock ticks come between stopPad and its timer): when the release
\* timer of a stopPad() that was called while a pad played fires, no call
\* is suspended and no other pad is active, the engine is left idle in global mode with
\* globalOffset at the cue point of the released pad.
C16_ReleaseReturnsToCue ==
    [][(/\ lastEvent'.op = "releaseTimeout"
        /\ lastEvent'.padId \in Pads
        /\ lastEvent'.trigger = NoPad
        /\ pending = <<>>
        /\ eng.state.currentPadId \in {lastEvent'.padId, NoPad})
      => /\ eng'.globalOffset = lastEvent'.cuePoint
         /\ eng'.state.mode = "global"
         /\ ~eng'.state.isPlaying]_vars

\* the end of the segment the control state describes, within the source
SegmentEnd(e) ==
    IF e.state.params.reverse THEN 0
    ELSE Min(getDuration(e), e.state.cuePoint + e.state.duration)

\* C17: when a position poll declares a segment complete, the engine stops
\* (isPlaying false, stop posted); for a global-mode segment the position is
\* the end of the segment clamped to the duration of the source and
\* globalOffset is set to that position; for a reverse segment the position
\* is 0.
C17_CompletionSnapsToSegmentEnd ==
    [][(/\ lastEvent'.op = "getCurrentTime"
        /\ eng.state.isPlaying
        /\ ~eng'.state.isPlaying)
      => /\ toWorklet' = toWorklet \o <<StopMsg>>
         /\ (eng.state.mode = "global" \/ eng.state.params.reverse)
               => eng'.accumulatedPosition = SegmentEnd(eng)
         /\ (eng.state.mode = "global" /\ ~eng.state.params.reverse)
               => eng'.globalOffset = SegmentEnd(eng)]_vars

\* C18: after the engine handles a complete message for the segment it is
\* playing, with no call suspended, it is idle and the effects of a
\* completion are applied whatever the elapsed time: getCurrentTime()
\* returns the end of the segment (0 for reverse) and, in global mode,
\* globalOffset is that end position.
C18_CompleteAppliesCompletion ==
    [][(/\ lastEvent'.op = "complete"
        /\ eng.state.isPlaying
        /\ pending = <<>>)
      => /\ ~eng'.state.isPlaying
         /\ getCurrentTime([World EXCEPT !.eng = eng']).value = SegmentEnd(eng)
         /\ eng.state.mode = "global" => eng'.globalOffset = SegmentEnd(eng)]_vars

\* C20: in every reachable state getCurrentTime() returns a value in
\* [0, duration of the source].
C20_ReportedPositionWithinSource ==
    /\ getCurrentTime(World).value >= 0
    /\ getCurrentTime(World).value <= getDuration(eng)

(***************************************************************************)
(* The processor alone: the messages of the port arrive as the engine can  *)
(* send them, the audio thread calls process(), and the stretcher makes    *)
(* output of what it was fed.                                              *)
(***************************************************************************)
\* what the processor did last; trigger is history: "stop" from a stop
\* message until the next play message, "complete" from a posted 'complete'
\* until the next play or stop message
RenderEvent(op) ==
    [Event(op, NoPad, 0, GlobalParams)
       EXCEPT !.trigger = IF op = "stop" THEN "stop"
                          ELSE IF op = "play" THEN NoPad
                          ELSE IF op = "processComplete" THEN "complete"
                          ELSE lastEvent.trigger]

RenderUnchanged == UNCHANGED <<eng, pending, timers, toWorklet, now, ring, rbLast, rbFifo>>

\* 'init' arrives and initWasm runs to its end
RenderInit ==
    /\ ~proc.initialized
    /\ proc' = initWasm(proc)
    /\ toEngine' = Append(toEngine, "ready")
    /\ lastEvent' = RenderEvent("init")
    /\ UNCHANGED <<rbOut, calls>>
    /\ RenderUnchanged

\* 'load' arrives with the source of the engine
RenderLoad ==
    /\ UserCall
    /\ proc' = loadAudio(proc, LoadMsg(AudioBuffer(SrcDuration)))
    /\ lastEvent' = RenderEvent("load")
    /\ UNCHANGED <<rbOut, toEngine>>
    /\ RenderUnchanged

\* 'play' arrives: a forward segment from startSample to the end of the
\* source or a reverse segment from startSample down to 0, as play() and
\* playPad() compute them; a cue point is any time within the source, so
\* startSample is any sample of it
RenderPlay ==
    \E startSample \in 0..(SrcDuration * SampleRate), reverse \in BOOLEAN :
        LET durationSamples == IF reverse THEN startSample
                               ELSE SrcDuration * SampleRate - startSample
        IN  /\ UserCall
            /\ proc' = startPlayback(proc, Msg("play", startSample, durationSamples, reverse))
            /\ lastEvent' = [RenderEvent("play") EXCEPT !.cuePoint = durationSamples]
            /\ UNCHANGED <<rbOut, toEngine>>
            /\ RenderUnchanged

\* 'stop' arrives
RenderStop ==
    /\ UserCall
    /\ proc' = stopPlayback(proc)
    /\ lastEvent' = RenderEvent("stop")
    /\ UNCHANGED <<rbOut, toEngine>>
    /\ RenderUnchanged

\* the audio thread calls process() for one render quantum
RenderCallback ==
    LET r == process(proc) IN
    /\ proc' = r.p
    /\ rbOut' = r.out
    /\ toEngine' = IF r.complete THEN Append(toEngine, "complete") ELSE toEngine
    /\ lastEvent' = RenderEvent(IF r.complete THEN "processComplete" ELSE "process")
    /\ UNCHANGED calls
    /\ RenderUnchanged

\* the stretcher finishes some of the frames it was fed; at time ratio 1
\* it returns as many frames as it was given
StretcherProduces ==
    /\ \E k \in 1..Len(proc.rbHeld) :
          proc' = [proc EXCEPT !.rbAvailable = @ \o SubSeq(proc.rbHeld, 1, k),
                               !.rbHeld = DropFirst(@, k)]
    /\ lastEvent' = RenderEvent("stretcher")
    /\ UNCHANGED <<rbOut, toEngine, calls>>
    /\ RenderUnchanged

NextRender ==
    \/ RenderInit
    \/ RenderLoad
    \/ RenderPlay
    \/ RenderStop
    \/ RenderCallback
    \/ StretcherProduces

SpecRender == Init /\ [][NextRender]_vars

\* C19 (checked under SpecRender): a segment that is active is never left
\* where it cannot complete.  In a state where the stretcher holds nothing
\* and a render callback changes nothing, every later state is the same
\* until a message arrives, so complete is never posted for the segment:
\* no such state is reachable while a segment is active.
C19_ActiveSegmentNeverStalls ==
    ~(/\ proc.isPlaying
      /\ proc.rbHeld = <<>>
      /\ proc.rbAvailable = <<>>
      /\ process(proc).p = proc)

(***************************************************************************)
(* One segment and its position: the user loads a source, starts one       *)
(* segment with play() or playPad(), and from then on only polls the       *)
(* position and changes the global speed.                                  *)
(***************************************************************************)
LoadLongSource ==
    /\ calls = 0
    /\ UserCall
    /\ Commit(Drain(setAudioBuffer(World, AudioBuffer(LongSrcDuration))), OtherEvent)
    /\ UNCHANGED <<toEngine, proc, now, rbVars>>

StartByPlay == calls = 1 /\ PlayCall

StartByPlayPad == calls = 1 /\ PlayPadCall

SetGlobalSpeedCall ==
    \E speed \in GlobalSpeedInputs :
        /\ Commit(Drain(setGlobalSpeed(World, speed)),
                  Event("setGlobalSpeed", NoPad, speed, GlobalParams))
        /\ UNCHANGED <<toEngine, proc, now, calls, rbVars>>

NextPosition ==
    \/ LoadLongSource
    \/ StartByPlay
    \/ StartByPlayPad
    \/ SetGlobalSpeedCall
    \/ GetCurrentTimeCall
    \/ ContextResumes
    \/ InitSucceeds
    \/ InitFails
    \/ EngineReceives
    \/ ProcessorReceives
    \/ ProcessorReady
    \/ ProcessFeeds
    \/ ProcessCompletes
    \/ Tick

SpecPosition == Init /\ [][NextPosition]_vars

\* effectiveElapsed = (now - segmentStartTime) * params.speed * globalSpeed
EffectiveElapsed(e, t) == (t - e.state.startTime) * e.state.params.speed * e.globalSpeed

\* C21 (checked under SpecPosition): a position poll during a segment that
\* goes on playing returns clamp(cue + effectiveElapsed) for forward and
\* clamp(cue - effectiveElapsed) for reverse, whatever polls and
\* setGlobalSpeed calls came before it.
C21_PositionIsCuePlusEffectiveElapsed ==
    [][(/\ lastEvent'.op = "getCurrentTime"
        /\ eng.state.isPlaying
        /\ eng'.state.isPlaying)
      => getCurrentTime(World).value =
            Clamp(eng, IF eng.state.params.reverse
                       THEN eng.state.cuePoint - EffectiveElapsed(eng, now)
                       ELSE eng.state.cuePoint + EffectiveElapsed(eng, now))]_vars

\* C22 (checked under SpecPosition): a position poll during a segment
\* declares completion exactly when effectiveElapsed >= duration - epsilon:
\* never when it is smaller, always when it is at least that; at speed 1 and
\* global speed 1 this is no earlier than duration - epsilon after the start
\* of the segment.
C22_CompletionExactlyAtThreshold ==
    [][(/\ lastEvent'.op = "getCurrentTime"
        /\ eng.state.isPlaying)
      => /\ ~eng'.state.isPlaying
               <=> EffectiveElapsed(eng, now) >= eng.state.duration - CompletionEpsilon
         /\ (/\ ~eng'.state.isPlaying
             /\ eng.state.params.speed = 1
             /\ eng.globalSpeed = 1)
               => now - eng.state.startTime >= eng.state.duration - CompletionEpsilon]_vars

\* a poll declared a segment of positive duration complete before its
\* duration had passed on the clock, at a global speed above 1
C22_Witness ==
    /\ lastEvent.op = "getCurrentTime"
    /\ ~eng.state.isPlaying
    /\ eng.state.duration > CompletionEpsilon
    /\ eng.globalSpeed > 1
    /\ now > eng.state.startTime
    /\ now - eng.state.startTime < eng.state.duration - CompletionEpsilon
    /\ EffectiveElapsed(eng, now) >= eng.state.duration - CompletionEpsilon
    /\ Len(toWorklet) > 0
    /\ toWorklet[Len(toWorklet)] = StopMsg
    /\ toEngine = <<>>
    /\ proc.isPlaying

\* the source indices one top-up reads, in order
ChunkIndices(p) ==
    LET n == SamplesToWrite(p)
        all == [k \in 1..n |-> SourceIndex(p, k - 1)]
    IN  SelectSeq(all, LAMBDA srcIdx : InSource(p, srcIdx, n))

\* the source indices the processor reads for the segment it has, in order,
\* when the input ring is emptied between the top-ups
RECURSIVE ReadIndices(_)
ReadIndices(p) ==
    IF SamplesToWrite(p) <= 0 THEN <<>>
    ELSE ChunkIndices(p)
           \o ReadIndices([FeedInputRing(p) EXCEPT !.inputRingBuffer = RBClear(@)])

ReverseSeq(q) == [k \in 1..Len(q) |-> q[Len(q) + 1 - k]]

\* C23 (checked under SpecRender): when the processor has started a reverse
\* segment (start c, length c), the source indices it reads are those of
\* the forward segment (start 0, length c) in the opposite order.
C23_ReverseReadsForwardBackwards ==
    (/\ lastEvent.op = "play"
     /\ proc.isPlaying
     /\ proc.isReverse)
      => LET c == proc.playhead
             forward == startPlayback(proc, Msg("play", 0, c, FALSE))
         IN  ReadIndices(proc) = ReverseSeq(ReadIndices(forward))

\* C24 (checked under SpecRender): from the stop message to the next play
\* message the processor has no active segment, both rings have available =
\* 0, the playhead stays where it is and every render callback outputs
\* silence.
C24_StopSilencesUntilNextPlay ==
    /\ [](lastEvent.trigger = "stop"
            => /\ ~proc.isPlaying
               /\ proc.inputRingBuffer.available = 0
               /\ proc.outputRingBuffer.available = 0
               /\ lastEvent.op \in {"process", "processComplete"}
                     => rbOut = FreshOutput(FramesNeeded))
    /\ [][(lastEvent.trigger = "stop" /\ lastEvent'.trigger = "stop")
            => proc'.playhead = proc.playhead]_vars

\* a segment was stopped before its end, with frames in the input ring, and
\* a render callback has run since
C24_Witness ==
    /\ lastEvent.trigger = "stop"
    /\ lastEvent.op = "process"
    /\ proc.initialized
    /\ Remaining(proc) > 0
    /\ \E k \in DOMAIN proc.inputRingBuffer.buffer : proc.inputRingBuffer.buffer[k] # 0
    /\ rbOut = FreshOutput(FramesNeeded)

\* C25 (checked under SpecRender): a render callback that finds a frames in
\* the output ring at its last step delivers the first min(n, a) of them in
\* order, n being the frames requested, fills the rest of the output with
\* zeros and removes exactly the delivered frames from the ring.
C25_CallbackDeliversWhatIsThere ==
    [][(/\ lastEvent'.op \in {"process", "processComplete"}
        /\ proc.initialized)
      => LET rb == BeforeDelivery(proc).p.outputRingBuffer
             a  == rb.available
             m  == Min(FramesNeeded, a)
         IN  /\ proc'.outputRingBuffer.available = a - m
             /\ \A c \in 0..(Channels - 1), i \in 0..(FramesNeeded - 1) :
                   rbOut'[c][i] = IF i < m
                                  THEN rb.buffer[((rb.readIndex + i) % rb.capacity)
                                                   * rb.channels + c]
                                  ELSE 0]_vars

(***************************************************************************)
(* An engine whose initialization fails: the load of the module or of the  *)
(* binary may fail on the control side, and initWasm of the processor      *)
(* throws, so that 'ready' is never posted.                                *)
(***************************************************************************)
\* initWasm throws (WebAssembly.compile or RubberBandInterface.initialize
\* rejects): initialized stays false and nothing is posted
ProcessorInitFails ==
    /\ proc.initializing
    /\ ~proc.initialized
    /\ proc' = [proc EXCEPT !.initializing = FALSE]
    /\ lastEvent' = OtherEvent
    /\ UNCHANGED <<eng, pending, timers, toWorklet, toEngine, now, calls, rbVars>>

NextInitFailure ==
    \/ SetAudioBufferCall
    \/ PlayCall
    \/ PlayPadCall
    \/ GetCurrentTimeCall
    \/ ContextResumes
    \/ InitSucceeds
    \/ InitFails
    \/ ProcessorReceives
    \/ ProcessorInitFails
    \/ Tick

SpecInitFailure == Init /\ [][NextInitFailure]_vars

\* the processor received 'init' and its initWasm has failed
RenderInitFailed ==
    /\ eng.workletNode
    /\ ~proc.initialized
    /\ ~proc.initializing
    /\ \A i \in DOMAIN toWorklet : toWorklet[i].type # "init"

\* C26 (checked under SpecInitFailure, where no initialization of the
\* processor succeeds): a play() or playPad() called after the load of the
\* module or binary was rejected, or after initWasm of the processor
\* failed, leaves isPlaying false and posts no play message.
C26_NoPlaybackAfterInitFailure ==
    [][(/\ lastEvent'.op \in {"play", "playPad"}
        /\ (eng.initPromise = "rejected" \/ RenderInitFailed))
      => /\ ~eng'.state.isPlaying
         /\ \A i \in (Len(toWorklet) + 1)..Len(toWorklet') :
               toWorklet'[i].type # "play"]_vars

\* C27 (checked under SpecRender): a play or stop message that arrives
\* before the processor is initialized, and a play message that arrives
\* before a source is loaded, change nothing in the processor (playhead,
\* playEnd, direction, isPlaying, rings) and post nothing; as long as the
\* processor is uninitialized or has no source no segment is active, no
\* complete has been posted, and a render callback of the uninitialized
\* processor returns silence and changes nothing.
C27_EarlyCommandIsNoOp ==
    /\ []((~proc.initialized \/ ~proc.audioSource)
            => /\ ~proc.isPlaying
               /\ \A i \in DOMAIN toEngine : toEngine[i] # "complete")
    /\ [][(\/ lastEvent'.op \in {"play", "stop"} /\ ~proc.initialized
           \/ lastEvent'.op = "play" /\ ~proc.audioSource
           \/ lastEvent'.op \in {"process", "processComplete"} /\ ~proc.initialized)
          => /\ proc' = proc
             /\ toEngine' = toEngine
             /\ (lastEvent'.op \in {"process", "processComplete"}
                   => rbOut' = FreshOutput(FramesNeeded))]_vars

\* a play message was ignored by an initialized processor without a source,
\* and callbacks have run since the processor exists
C27_Witness ==
    /\ lastEvent.op = "play"
    /\ proc.initialized
    /\ ~proc.audioSource
    /\ ~proc.isPlaying

(***************************************************************************)
(* A pad left to run: the source is loaded, the position is set by seek(), *)
(* play() is called and finishes its start sequence (or fails, or plays to *)
(* its end), a pad is triggered, and no command follows.                   *)
(***************************************************************************)
\* no play() is suspended in its start sequence
NoStartPending == \A i \in DOMAIN pending : pending[i].pc = "sab_init"

PadFourth == calls = 3 /\ NoStartPending /\ PlayPadCall

NextPadRun ==
    \/ LoadFirst
    \/ SeekSecond
    \/ PlayThird
    \/ PadFourth
    \/ GetCurrentTimeCall
    \/ ContextResumes
    \/ InitSucceeds
    \/ EngineReceives
    \/ ProcessorReceives
    \/ ProcessorReady
    \/ ProcessFeeds
    \/ ProcessCompletes
    \/ Tick

SpecPadRun == Init /\ [][NextPadRun]_vars

\* C28 (checked under SpecPadRun, where the pad is triggered when no earlier
\* play() is still suspended): the playPad() call and every step after
\* it (the continuations of the start, the polls of the position with their
\* time-based completion, the 'complete' of the processor) leave
\* globalOffset as it was.
C28_PadRunKeepsGlobalOffset ==
    [][(calls = 3 /\ calls' = 4) \/ calls = 4
         => eng'.globalOffset = eng.globalOffset]_vars

\* a forward pad segment was started and has run to its end, away from the
\* global resume point
C28_Witness ==
    /\ calls = 4
    /\ eng.state.mode = "pad"
    /\ ~eng.state.isPlaying
    /\ eng.state.currentPadId = NoPad
    /\ eng.state.duration > 0
    /\ ~eng.state.params.reverse
    /\ eng.accumulatedPosition = eng.state.cuePoint + eng.state.duration
    /\ eng.globalOffset # eng.accumulatedPosition
    /\ eng.globalOffset > 0

\* C29 (checked under SpecRender): a render callback that finds a segment
\* active writes n = min(free space of the input ring, remaining) frames to
\* the input ring and moves the playhead by n towards playEnd (up when
\* forward, down when reverse); the write is accepted; and while a segment
\* is active the playhead has not passed playEnd.
C29_TopUpIsMinOfSpaceAndRemaining ==
    /\ [](proc.isPlaying => Remaining(proc) >= 0)
    /\ [][(lastEvent'.op \in {"process", "processComplete"} /\ proc.isPlaying)
          => LET n == Min(proc.inputRingBuffer.capacity - proc.inputRingBuffer.available,
                          Remaining(proc))
                 fed == proc.inputRingBuffer.available + n - proc'.inputRingBuffer.available
             IN  /\ ArrLen(TopUpChunk(proc)[0]) = n
                 /\ (n > 0 => RBWrite(proc.inputRingBuffer, TopUpChunk(proc)).ret)
                 /\ FeedInputRing(proc).inputRingBuffer.available
                      = proc.inputRingBuffer.available + n
                 /\ proc'.playhead = IF proc.isReverse THEN proc.playhead - n
                                     ELSE proc.playhead + n
                 /\ fed \in {0, ChunkSize}]_vars

\* a callback has written the last frames of a segment, fewer than the free
\* space of the ring, and some of them are still in the input ring
C29_Witness ==
    /\ lastEvent.op = "process"
    /\ proc.isPlaying
    /\ Remaining(proc) = 0
    /\ proc.inputRingBuffer.available > 0
    /\ proc.inputRingBuffer.available < proc.inputRingBuffer.capacity

\* C30 (checked under SpecRender): a render callback posts 'complete' only
\* when step 4 finds a segment active, nothing remaining, no output
\* available in the stretcher and both rings empty, and the callback ends in
\* such a state with the segment no longer active; no 'complete' was posted
\* since the last play message, and a segment becomes active by a play
\* message alone, so a play message is followed by at most one 'complete'.
C30_CompleteOnlyWhenDrainedAndOnce ==
    /\ [][lastEvent'.op = "processComplete"
          => LET p3 == FeedRubberBand(FeedInputRing(proc)) IN
             /\ proc.isPlaying
             /\ p3.isPlaying
             /\ Remaining(p3) <= 0
             /\ Len(p3.rbAvailable) = 0
             /\ p3.inputRingBuffer.available = 0
             /\ p3.outputRingBuffer.available = 0
             /\ ~proc'.isPlaying
             /\ Remaining(proc') <= 0
             /\ Len(proc'.rbAvailable) = 0
             /\ proc'.inputRingBuffer.available = 0
             /\ proc'.outputRingBuffer.available = 0
             /\ lastEvent.trigger = NoPad
             /\ toEngine' = Append(toEngine, "complete")]_vars
    /\ [][toEngine' # toEngine
          => lastEvent'.op \in {"init", "processComplete"}]_vars
    /\ [][(~proc.isPlaying /\ proc'.isPlaying) => lastEvent'.op = "play"]_vars

\* 'complete' was posted for a segment, and callbacks have run since
C30_Witness ==
    /\ lastEvent.op = "process"
    /\ lastEvent.trigger = "complete"
    /\ ~proc.isPlaying
    /\ \E i \in DOMAIN toEngine : toEngine[i] = "complete"

\* C31 (checked under SpecRender): when steps 3 and 4 of a render callback
\* of the initialized processor are done, the output ring holds at least
\* the target level or the input ring holds less than one chunk.
C31_FeedsUntilTargetOrStarved ==
    [][(lastEvent'.op \in {"process", "processComplete"} /\ proc.initialized)
         => LET p4 == BeforeDelivery(proc).p IN
            \/ p4.outputRingBuffer.available >= TargetOutputLevel
            \/ p4.inputRingBuffer.available < ChunkSize]_vars

\* the messages a step posts to the processor (none when the processor takes
\* one from the queue)
Posted == IF Len(toWorklet') > Len(toWorklet)
          THEN SubSeq(toWorklet', Len(toWorklet) + 1, Len(toWorklet'))
          ELSE <<>>

\* the call that created the node is still waiting for 'ready'
AwaitingReady == \E i \in DOMAIN pending : pending[i].wait = "ready"

\* C32: 'init' is posted by the step that creates the node, first of what
\* that step posts, and by no other step; nothing is posted before the node
\* exists; and a play message is posted only by a step that handles 'ready'
\* or that starts when no call is waiting for 'ready' any more.
C32_InitFirstOncePlayAfterReady ==
    [][/\ (~eng.workletNode /\ Posted # <<>>)
            => eng'.workletNode /\ Posted[1].type = "init"
       /\ \A i \in DOMAIN Posted :
             Posted[i].type = "init" => ~eng.workletNode /\ i = 1
       /\ (eng.workletNode => eng'.workletNode)
       /\ (\E i \in DOMAIN Posted : Posted[i].type = "play")
            => \/ ~AwaitingReady /\ eng.workletNode
               \/ /\ toEngine # <<>>
                  /\ Head(toEngine) = "ready"
                  /\ toEngine' = Tail(toEngine)]_vars

\* C33: at most one ramp is scheduled on the envelope gain, and once the
\* envelope exists exactly one ramp is the last thing scheduled on it: the
\* attack of the last start or the fade of the last stopPad().
C33_OneRampAtATime ==
    /\ eng.gainRamps <= 1
    /\ (eng.envelopeGain => eng.gainRamps = 1)

\* a pad was released while its attack ramp was scheduled: stopPad() has
\* scheduled its fade and its timer is pending
C33_Witness ==
    /\ timers # <<>>
    /\ eng.envelopeGain
    /\ eng.gainRamps = 1
    /\ eng.state.mode = "pad"
    /\ eng.state.isPlaying

\* C34: once the load of the module or the binary has failed, a play(), or
\* a playPad() of a segment of positive length, called with a source loaded
\* and the context running makes a fresh attempt: the promise of the
\* initialization is no longer the rejected one when the call returns.
C34_FailedInitIsRetried ==
    [][(/\ eng.initPromise = "rejected"
        /\ eng.audioBuffer.present
        /\ eng.ctxState = "running"
        /\ \/ lastEvent'.op = "play"
           \/ /\ lastEvent'.op = "playPad"
              /\ PadDuration(eng, lastEvent'.cuePoint, lastEvent'.params) > 0)
         => eng'.initPromise # "rejected"]_vars

\* the 'complete' the engine is about to handle was posted for a segment that
\* a later start has superseded: the engine plays, and its play command is
\* still on its way to the processor or has started a segment there since
StaleComplete ==
    /\ toEngine # <<>>
    /\ Head(toEngine) = "complete"
    /\ eng.state.isPlaying
    /\ \/ proc.isPlaying
       \/ \E i \in DOMAIN toWorklet : toWorklet[i].type = "play"

\* C35: handling a 'complete' of a superseded segment posts no stop and
\* leaves isPlaying and the active pad id as they are.
C35_StaleCompleteIsIgnored ==
    [][(StaleComplete /\ toEngine' = Tail(toEngine))
         => /\ eng'.state.isPlaying
            /\ eng'.state.currentPadId = eng.state.currentPadId
            /\ \A i \in DOMAIN Posted : Posted[i].type # "stop"]_vars

\* nothing is under way: every posted message was handled, no release timer
\* is pending, no call is suspended at an await
Quiescent ==
    /\ toWorklet = <<>>
    /\ toEngine = <<>>
    /\ timers = <<>>
    /\ pending = <<>>

\* C36: in every quiescent state of an engine whose processor is
\* initialized, the engine reports isPlaying exactly when the processor has
\* a segment active.
C36_ControlAndRenderAgree ==
    (Quiescent /\ eng.workletNode /\ proc.initialized)
        => (eng.state.isPlaying <=> proc.isPlaying)

(***************************************************************************)
(* Two starts that overlap: the source is loaded, a first play() or        *)
(* playPad() is called, and while it is suspended in its start sequence    *)
(* pad B is triggered; no command follows.                                 *)
(***************************************************************************)
\* a play() or playPad() is suspended at an await of its start sequence
StartSuspended == \E i \in DOMAIN pending : pending[i].pc # "sab_init"

\* the second trigger: pad B, forward from cue point 1 at speed 2
SecondPadId == "B"

SecondCue == 1

SecondParams == [speed |-> 2, reverse |-> FALSE]

FirstPlay == calls = 1 /\ PlayCall

FirstPad == calls = 1 /\ PlayPadCall

SecondPad ==
    /\ calls = 2
    /\ StartSuspended
    /\ PlayPadCall
    /\ lastEvent'.padId = SecondPadId
    /\ lastEvent'.cuePoint = SecondCue
    /\ lastEvent'.params = SecondParams

NextOverlap ==
    \/ LoadFirst
    \/ FirstPlay
    \/ FirstPad
    \/ SecondPad
    \/ ContextResumes
    \/ InitSucceeds
    \/ ProcessorReceives
    \/ ProcessorReady
    \/ EngineReceives

SpecOverlap == Init /\ [][NextOverlap]_vars

\* C37 (checked under SpecOverlap): a step after the second trigger that
\* posts a play command and leaves no start suspended has posted the segment
\* of the second trigger last, and leaves the cue point, params, pad id and
\* duration of the second trigger in the state of the engine.
C37_LastTriggerWins ==
    [][(/\ calls = 3
        /\ \E i \in DOMAIN Posted : Posted[i].type = "play"
        /\ ~StartSuspended')
         => /\ Posted[Len(Posted)]
                 = PlayMsg(SecondCue, PadDuration(eng, SecondCue, SecondParams),
                           SecondParams)
            /\ eng'.state.cuePoint = SecondCue
            /\ eng'.state.params = SecondParams
            /\ eng'.state.currentPadId = SecondPadId
            /\ eng'.state.duration = PadDuration(eng, SecondCue, SecondParams)]_vars

(***************************************************************************)
(* A release without a pad: the source is loaded, the position is set by   *)
(* seek(), play() is called, and stopPad() is called as the key-up and     *)
(* mouse-up handlers of the pad grid call it, with no pad playing.         *)
(***************************************************************************)
StopPadFourth == calls = 3 /\ StopPadCall

NextIdleRelease ==
    \/ LoadFirst
    \/ SeekSecond
    \/ PlayThird
    \/ StopPadFourth
    \/ GetCurrentTimeCall
    \/ ContextResumes
    \/ InitSucceeds
    \/ EngineReceives
    \/ ProcessorReceives
    \/ ProcessorReady
    \/ ProcessFeeds
    \/ ProcessCompletes
    \/ Tick

SpecIdleRelease == Init /\ [][NextIdleRelease]_vars

\* C38 (checked under SpecIdleRelease): a stopPad() called while no pad
\* segment is active posts no stop and leaves mode, isPlaying and
\* globalOffset as they are.
C38_StopPadWithoutPadChangesNothing ==
    [][(calls = 3 /\ calls' = 4 /\ ~isPadPlaying(eng))
         => /\ \A i \in DOMAIN Posted : Posted[i].type # "stop"
            /\ eng'.state.mode = eng.state.mode
            /\ eng'.state.isPlaying = eng.state.isPlaying
            /\ eng'.globalOffset = eng.globalOffset]_vars

(***************************************************************************)
(* A second, shorter source: the long source is loaded, the position is    *)
(* set by seek(), and the source of SrcDuration is loaded in its place,    *)
(* before or after a play() and a pause().                                 *)
(***************************************************************************)
ReloadShorter == calls >= 2 /\ SetAudioBufferCall

NextReload ==
    \/ LoadLongSource
    \/ SeekSecond
    \/ PlayThird
    \/ PauseFourth
    \/ ReloadShorter
    \/ GetCurrentTimeCall
    \/ ContextResumes
    \/ InitSucceeds
    \/ EngineReceives
    \/ ProcessorReceives
    \/ ProcessorReady
    \/ Tick

SpecReload == Init /\ [][NextReload]_vars

\* C39 (checked under SpecReload): in every reachable state
\* 0 <= globalOffset <= duration of the source.
C39_GlobalOffsetWithinSource ==
    /\ eng.globalOffset >= 0
    /\ eng.globalOffset <= getDuration(eng)

\* C40: every play command a step posts has 0 <= startSample <= length of
\* the source in samples, and durationSamples > 0.
C40_PlayCommandIsAValidSegment ==
    [][\A i \in DOMAIN Posted :
          Posted[i].type = "play"
            => /\ Posted[i].startSample >= 0
               /\ Posted[i].startSample <= getDuration(eng') * SampleRate
               /\ Posted[i].durationSamples > 0]_vars

====
